---------------------------- MODULE Spec2Model ----------------------------
(***************************************************************************)
(* The autopost orchestration and deduplication engine of main.py:        *)
(* the per-tenant config store (load_client / save_client), the URL       *)
(* normalizer, the source selector, the quota and schedule gate, the      *)
(* autopost loop with its suspension points, and the command handlers     *)
(* that read-modify-write a tenant's record.                               *)
(*                                                                         *)
(* Representation.  Python None is a typed sentinel: "" for a string, -1  *)
(* for a date or a time, <<>> for an optional tuple.  A date is a day      *)
(* number and a time is a minute count, clock \div MinutesPerDay and      *)
(* clock % MinutesPerDay; "HH:MM" strings are the minute of the day, whose *)
(* numeric order is the lexicographic order of the zero-padded strings.    *)
(***************************************************************************)
EXTENDS Integers, Sequences, FiniteSets, TLC

VARIABLES
    store,           \* clients/: file -> NoFile or what the file holds
    DEFAULT_CLIENT,  \* the module-level dict; its list values are shared objects
    clock,           \* wall clock, in minutes
    last_post_at,    \* autopost_loop's local dict: tenant -> time or -1
    pc,              \* autopost_loop's position
    queue,           \* tenants of this tick's glob not yet completed (head: in hand)
    now,             \* autopost_loop's `now`, captured when the tick starts
    cur,             \* the loop's locals across its awaited send_message
    hpc,             \* the command handler's position
    hcur,            \* fetchonce_cmd's locals across its awaited send_message
    published,       \* history: per tenant, the confirmed send_message calls
    limit_days,      \* history: per tenant, the days on which /setlimit changed daily_limit
    ev,              \* history: the last operation and the tenant it was for
    ticks,           \* number of sleeps completed
    events,          \* number of updates handled and of restarts of the process
    call             \* history: the last observed call of a function and its result

vars == <<store, DEFAULT_CLIENT, clock, last_post_at, pc, queue, now, cur,
          hpc, hcur, published, limit_days, ev, ticks, events, call>>

--------------------------------------------------------------------------
(* Bounds of the model *)

MaxTicks == 1
MaxEvents == 2
MaxHistory == 3

Tenants == {1, 2, 3}

\* The tenants that have a file or send a command, where a third tenant
\* plays no part.
Users == {1, 2}

MinutesPerDay == 24 * 60

\* The gap between two ticks: the 60-second sleep plus the time the tick took.
Elapse == {1, 30, MinutesPerDay}

\* Day 1, 09:00.
StartClock == MinutesPerDay + 9 * 60

Today == clock \div MinutesPerDay

HHMM(t) == t % MinutesPerDay

--------------------------------------------------------------------------
(* Sequences *)

Range(s) == {s[i] : i \in 1..Len(s)}

Min(a, b) == IF a < b THEN a ELSE b

\* s[-n:] of Python for n >= 0; s[-0:] is s[0:], the whole list.
LastN(s, n) ==
    IF n = 0 \/ n >= Len(s) THEN s ELSE SubSeq(s, Len(s) - n + 1, Len(s))

\* s[:n] of Python for n >= 0.
FirstN(s, n) == SubSeq(s, 1, Min(n, Len(s)))

RECURSIVE SortedSeq(_)
\* sorted(set(...)) of a set of integers.
SortedSeq(S) ==
    IF S = {} THEN <<>>
    ELSE LET m == CHOOSE x \in S : \A y \in S : x <= y
         IN <<m>> \o SortedSeq(S \ {m})

\* The orders in which an iteration may yield the members of S.
Orders(S) ==
    {p \in [1..Cardinality(S) -> S] : \A i, j \in 1..Cardinality(S) : p[i] = p[j] => i = j}

--------------------------------------------------------------------------
(* normalize_url.  A URL is what urlsplit makes of it: scheme, netloc,     *)
(* path, query, fragment; the query is the list of its key=value fields as *)
(* they are written, percent-encoded.                                      *)

QueryKeys == {"id", "ref", "fbclid", "utm_source", "UTM_Source", "utm_id"}

\* str.lower over the keys of the model.
lower(k) == IF k = "UTM_Source" THEN "utm_source" ELSE k

banned_exact ==
    {"at_medium", "at_campaign", "at_bbc_team", "at_link_origin",
     "fbclid", "gclid", "igshid", "mc_cid", "mc_eid",
     "utm_source", "utm_medium", "utm_campaign", "utm_term", "utm_content"}

\* kl.startswith("utm_") over the (lowercased) keys of the model.
startswith_utm(kl) == kl \in {"utm_source", "utm_id"}

\* A filter that compares the key as it is written.
TrackingAsWritten(k) == k \in banned_exact \/ startswith_utm(k)

Tracking(k) == lower(k) \in banned_exact \/ startswith_utm(lower(k))

\* unquote_plus over the strings of the model: "+" and %20 are a space,
\* %25 is a percent sign.
unquote_plus(x) ==
    CASE x = "a%20b" -> "a b"
      [] x = "a+b" -> "a b"
      [] x = "%2520" -> "%20"
      [] x = "%20" -> " "
      [] x = "+" -> " "
      [] OTHER -> x

\* A quote_plus that lets a percent sign through.
QuoteKeepingPercent(x) ==
    CASE x = "a b" -> "a+b"
      [] x = " " -> "+"
      [] OTHER -> x

\* quote_plus over the strings of the model.
quote_plus(x) ==
    CASE x = "a b" -> "a+b"
      [] x = " " -> "+"
      [] x = "%20" -> "%2520"
      [] OTHER -> x

\* parse_qsl(parts.query, keep_blank_values=True): the decoded pairs.
parse_qsl(query) ==
    [i \in 1..Len(query) |->
        [k |-> unquote_plus(query[i].k), v |-> unquote_plus(query[i].v)]]

\* urlencode(new_q, doseq=True): the pairs encoded anew.
urlencode(q) ==
    [i \in 1..Len(q) |-> [k |-> quote_plus(q[i].k), v |-> quote_plus(q[i].v)]]

\* A filter that drops the whole query.
StripQuery(q) == <<>>

\* [(k, v) for (k, v) in q if not tracking]: the pairs that are kept.
new_q(q) == SelectSeq(q, LAMBDA x : ~Tracking(x.k))

\* parts = urlsplit(url), split once; urlunsplit of the parts with the new
\* query and an empty fragment.
normalize_url(url) ==
    CHOOSE u \in {[scheme |-> parts.scheme, netloc |-> parts.netloc,
                   path |-> parts.path,
                   query |-> urlencode(new_q(parse_qsl(parts.query))),
                   fragment |-> ""] : parts \in {url}} : TRUE

Url(path, query, fragment) ==
    [scheme |-> "https", netloc |-> "site.com", path |-> path,
     query |-> query, fragment |-> fragment]


--------------------------------------------------------------------------
(* sanitize_llm_post.  A text is a sequence of pieces, each a run of       *)
(* characters of one kind with its length: a word, a space, an http(s) URL *)
(* up to the next whitespace, a numbering prefix such as "1.", the label   *)
(* "link:".  Both callers pass clean_text(txt), which is one line with     *)
(* single spaces between its tokens.                                       *)

\* The [:900] of the return statement.
PostCap == 900

\* len("📌 Коротко: в источнике мало деталей.")
FallbackLen == 36

Piece(kind, len) == [kind |-> kind, len |-> len, cut |-> FALSE]

Space == Piece("space", 1)

\* " ".join(tokens)
RECURSIVE Joined(_)
Joined(tokens) ==
    IF tokens = <<>> THEN <<>>
    ELSE IF Len(tokens) = 1 THEN tokens
    ELSE <<Head(tokens), Space>> \o Joined(Tail(tokens))

RECURSIVE lstrip(_)
lstrip(t) ==
    IF t # <<>> /\ Head(t).kind = "space" THEN lstrip(Tail(t)) ELSE t

RECURSIVE rstrip(_)
rstrip(t) ==
    IF t # <<>> /\ t[Len(t)].kind = "space"
      THEN rstrip(SubSeq(t, 1, Len(t) - 1))
      ELSE t

strip(t) == rstrip(lstrip(t))

\* re.sub(r"https?://\S+", "", t)
WithoutUrls(t) == SelectSeq(t, LAMBDA x : x.kind # "url")

\* re.sub(r"(?m)^\s*\d+\s*[\)\.\-:]\s*", "", t): on one line, the prefix at
\* its start and the whitespace after it.
WithoutNumbering(t) ==
    IF lstrip(t) # <<>> /\ Head(lstrip(t)).kind = "number"
      THEN lstrip(Tail(lstrip(t)))
      ELSE t

\* re.sub(r"(?im)^\s*(ссылка|link)\s*:\s*.*$", "", t): a line that begins
\* with the label goes as a whole.
WithoutLabel(t) ==
    IF lstrip(t) # <<>> /\ Head(lstrip(t)).kind = "label" THEN <<>> ELSE t

RECURSIVE Chars(_)
\* len(t)
Chars(t) == IF t = <<>> THEN 0 ELSE Head(t).len + Chars(Tail(t))

RECURSIVE Sliced(_, _)
\* t[:n]
Sliced(t, n) ==
    IF t = <<>> \/ n = 0 THEN <<>>
    ELSE IF Head(t).len <= n THEN <<Head(t)>> \o Sliced(Tail(t), n - Head(t).len)
    ELSE <<[Head(t) EXCEPT !.len = n, !.cut = TRUE]>>

\* What is appended: "\n\n", "🔗 " and the link.
Appended(link) == <<Piece("newlines", 2), Piece("mark", 2), link>>

sanitize_llm_post(text, link) ==
    LET t1 == strip(text)
        t2 == strip(WithoutUrls(t1))
        t3 == strip(WithoutNumbering(t2))
        t4 == strip(WithoutLabel(t3))
        t5 == IF t4 = <<>> THEN <<Piece("fallback", FallbackLen)>> ELSE t4
    IN Sliced(rstrip(t5) \o Appended(link), PostCap)

--------------------------------------------------------------------------
(* The feeds of the world: feedparser.parse(feed_url).entries.  An entry   *)
(* is its link (<<>> when it has none), its title (the rank of the title   *)
(* in string order) and published_parsed (0 when absent: the key (0,)      *)
(* sorts below every real struct_time).                                     *)

FeedEntries(feed_url) ==
    CASE feed_url = "f1" ->
           <<[link |-> <<Url("/a", <<[k |-> "utm_source", v |-> "x"]>>, "")>>,
              title |-> 2, published |-> 5],
             [link |-> <<Url("/b", <<>>, "top")>>, title |-> 1, published |-> 3]>>
      [] feed_url = "f2" ->
           <<[link |-> <<Url("/a", <<>>, "")>>, title |-> 3, published |-> 0],
             [link |-> <<>>, title |-> 9, published |-> 9]>>
      [] feed_url = "f3" ->
           <<[link |-> <<Url("/c", <<>>, "")>>, title |-> 4, published |-> 5],
             [link |-> <<Url("/d", <<[k |-> "id", v |-> "a%20b"]>>, "")>>,
              title |-> 8, published |-> 0]>>
      [] OTHER -> <<>>

\* The feeds whose fetch fails.  feedparser.parse is called unguarded; it
\* reports a failed fetch in the result it returns (bozo, no entries) when
\* the failure is a URLError, and raises for a failure that is not, such as
\* a connection reset or a timeout while the body is read.
FetchMayRaise == {"f4"}

--------------------------------------------------------------------------
(* DEFAULT_CLIENT and the store *)

NoFile == [absent |-> TRUE]

\* The files of CLIENTS_DIR: <id>.json is named id, <id>.broken.json -id.
BrokenFile(user_id) == -user_id

FileNames == Tenants \cup {BrokenFile(t) : t \in Tenants}

\* A directory that holds the given <id>.json files and nothing else.
OnDisk(records) ==
    [f \in FileNames |-> IF f \in Tenants THEN records[f] ELSE NoFile]

\* What a file may hold that is no record: text json.loads rejects (or
\* bytes that are no UTF-8), and JSON that is no object.
NotJson == [unreadable |-> "not json"]

NotObject == [unreadable |-> "not an object"]

Unreadable == {NotJson, NotObject}

\* The module as imported: the three list values are empty, and daily_date
\* is the day of the import.
ImportedDefaults(day) ==
    [feeds |-> <<>>, posted_urls |-> <<>>, schedule_times |-> <<>>,
     daily_date |-> day]

\* dict(DEFAULT_CLIENT): a shallow copy, so the list values are the lists
\* DEFAULT_CLIENT holds at that moment.  language, creator_profile and
\* style_file only feed the message text and are left out.
ClientDefaults(d) ==
    [mode |-> "rss",
     channel |-> "",
     feeds |-> d.feeds,
     posted_urls |-> d.posted_urls,
     autopost_enabled |-> FALSE,
     interval_minutes |-> 30,
     schedule_enabled |-> FALSE,
     schedule_times |-> d.schedule_times,
     last_schedule_date |-> -1,
     last_schedule_time |-> -1,
     daily_limit |-> 10,
     daily_count |-> 0,
     daily_date |-> d.daily_date,
     max_dedupe |-> 1500,
     fetch_entries_per_feed |-> 15,
     subscription_until |-> -1]

\* for k, v in DEFAULT_CLIENT.items(): cfg.setdefault(k, v).  A record
\* written by save_client holds every key, and the loop adds nothing to it.
Filled(raw, d) ==
    LET dflt == ClientDefaults(d)
    IN IF DOMAIN raw = DOMAIN dflt THEN raw
       ELSE [k \in DOMAIN dflt \cup DOMAIN raw |->
                IF k \in DOMAIN raw THEN raw[k] ELSE dflt[k]]

\* load_client's result.
load_client(st, d, user_id) ==
    IF st[user_id] = NoFile \/ st[user_id] \in Unreadable
      THEN ClientDefaults(d)
      ELSE Filled(st[user_id], d)

\* save_client: the record replaces the file.
save_client(st, user_id, cfg) == [st EXCEPT ![user_id] = cfg]

\* A load that writes back the record it has filled.
StoreFilledOnLoad(st, d, user_id) ==
    IF st[user_id] = NoFile THEN save_client(st, user_id, ClientDefaults(d))
    ELSE IF st[user_id] \in Unreadable
      THEN save_client([st EXCEPT ![BrokenFile(user_id)] = st[user_id]],
                       user_id, ClientDefaults(d))
    ELSE save_client(st, user_id, Filled(st[user_id], d))

\* A load that overwrites a file holding no record and keeps no copy of it.
StoreWithoutQuarantine(st, d, user_id) ==
    IF st[user_id] = NoFile \/ st[user_id] \in Unreadable
      THEN save_client(st, user_id, ClientDefaults(d))
      ELSE st

\* The store once load_client has returned: an absent tenant's defaults
\* are saved by the load itself, and so are those that replace a file that
\* holds no record, after the file's text was written to <id>.broken.json.
StoreAfterLoad(st, d, user_id) ==
    IF st[user_id] = NoFile THEN save_client(st, user_id, ClientDefaults(d))
    ELSE IF st[user_id] \in Unreadable
      THEN save_client([st EXCEPT ![BrokenFile(user_id)] = st[user_id]],
                       user_id, ClientDefaults(d))
    ELSE st

\* Whether cfg[key] of the loaded config is the very list DEFAULT_CLIENT
\* holds: dict(DEFAULT_CLIENT) and setdefault(k, v) both hand it over.
SharesDefault(st, user_id, key) ==
    \/ st[user_id] = NoFile
    \/ st[user_id] \in Unreadable
    \/ key \notin DOMAIN st[user_id]

--------------------------------------------------------------------------
(* Quota and subscription *)

\* A counter that takes the new date and keeps yesterday's count.
EnsureDateOnly(cfg, today) ==
    IF cfg.daily_date # today THEN [cfg EXCEPT !.daily_date = today] ELSE cfg

ensure_daily_counter(cfg, today) ==
    IF cfg.daily_date # today
      THEN [cfg EXCEPT !.daily_date = today, !.daily_count = 0]
      ELSE cfg

can_post_more(cfg, today) ==
    LET c == ensure_daily_counter(cfg, today) IN c.daily_count < c.daily_limit

bump_daily_count(cfg, today) ==
    LET c == ensure_daily_counter(cfg, today)
    IN [c EXCEPT !.daily_count = c.daily_count + 1]

\* A subscription_until that is a string strptime("%Y-%m-%d") rejects.
Unparseable == -2

\* A check that still passes on the day after subscription_until.
SubscriptionGrace(cfg, today) ==
    /\ cfg.subscription_until # -1
    /\ cfg.subscription_until # Unparseable
    /\ today <= cfg.subscription_until + 1

\* `until` empty or None: False; strptime raises: False; else today <= d.
subscription_ok(cfg, today) ==
    /\ cfg.subscription_until # -1
    /\ cfg.subscription_until # Unparseable
    /\ today <= cfg.subscription_until

--------------------------------------------------------------------------
(* pick_newest_unseen *)

\* A selector that looks at every entry of a feed.
RECURSIVE VisitedWhole(_, _)
VisitedWhole(feeds, per_feed) ==
    IF feeds = <<>> THEN <<>>
    ELSE LET es == FeedEntries(Head(feeds))
         IN [i \in 1..Len(es) |-> [e |-> es[i], feed_url |-> Head(feeds)]]
            \o VisitedWhole(Tail(feeds), per_feed)

\* The entries the two nested loops visit, in order, each with its feed.
RECURSIVE Visited(_, _)
Visited(feeds, per_feed) ==
    IF feeds = <<>> THEN <<>>
    ELSE LET es == FirstN(FeedEntries(Head(feeds)), per_feed)
         IN [i \in 1..Len(es) |-> [e |-> es[i], feed_url |-> Head(feeds)]]
            \o Visited(Tail(feeds), per_feed)

\* A comparison that looks at the title alone.
KeyByTitle(e, best) == e.title > best.title

\* key > (best[0] or (0,), best[1]) on a candidate (published, title, ...).
KeyGreater(e, best) ==
    \/ e.published > best.published
    \/ e.published = best.published /\ e.title > best.title

RECURSIVE PickFrom(_, _, _)
PickFrom(vs, posted, best) ==
    IF vs = <<>> THEN best
    ELSE LET e == Head(vs).e
             link_n == normalize_url(e.link[1])
         IN IF e.link = <<>> \/ link_n \in posted
              THEN PickFrom(Tail(vs), posted, best)
              ELSE IF best = <<>> \/ KeyGreater(e, best[1])
                     THEN PickFrom(Tail(vs), posted,
                                   <<[published |-> e.published, title |-> e.title,
                                      link |-> link_n, feed_url |-> Head(vs).feed_url]>>)
                     ELSE PickFrom(Tail(vs), posted, best)

\* A selector that does not consult posted_urls.
PickIgnoringPosted(cfg) ==
    PickFrom(Visited(cfg.feeds, cfg.fetch_entries_per_feed), {}, <<>>)

\* <<>> for None, <<best>> otherwise.
pick_newest_unseen(cfg) ==
    PickFrom(Visited(cfg.feeds, cfg.fetch_entries_per_feed),
             Range(cfg.posted_urls), <<>>)

RECURSIVE VisitedLinks(_)
VisitedLinks(vs) ==
    IF vs = <<>> THEN <<>>
    ELSE (IF Head(vs).e.link = <<>> THEN <<>>
          ELSE <<normalize_url(Head(vs).e.link[1])>>) \o VisitedLinks(Tail(vs))

\* A post that marks every entry that was looked at as posted.
RecordEveryVisited(cfg, link) ==
    [cfg EXCEPT !.posted_urls =
        LastN(cfg.posted_urls
                \o VisitedLinks(Visited(cfg.feeds, cfg.fetch_entries_per_feed)),
              cfg.max_dedupe)]

\* cfg["posted_urls"].append(link); cfg["posted_urls"] = cfg["posted_urls"][-max_dedupe:]
RecordPosted(cfg, link) ==
    [cfg EXCEPT !.posted_urls = LastN(Append(cfg.posted_urls, link), cfg.max_dedupe)]

--------------------------------------------------------------------------
(* The initial states: the process has just started (DEFAULT_CLIENT as     *)
(* imported, the loop about to run its first tick), and each tenant is     *)
(* either unknown or was set up in an earlier run.                          *)

\* /setchannel, /addfeed f1, /activate <id> 1, /autoposton.
RssTenant(day) ==
    [ClientDefaults(ImportedDefaults(day)) EXCEPT
        !.channel = "@c", !.feeds = <<"f1">>,
        !.autopost_enabled = TRUE, !.subscription_until = day + 1]

\* /mode creator, /setchannel, /schedule add 09:00, /schedule add 09:01,
\* /schedule on, /activate <id> 1, /autoposton.
CreatorTenant(day) ==
    [ClientDefaults(ImportedDefaults(day)) EXCEPT
        !.mode = "creator", !.channel = "@c",
        !.schedule_enabled = TRUE,
        !.schedule_times = <<HHMM(StartClock), HHMM(StartClock) + 1>>,
        !.autopost_enabled = TRUE, !.subscription_until = day + 1]

\* Nobody has used the bot yet; two RSS tenants; an RSS and a creator tenant.
InitialStores(day) ==
    {OnDisk([t \in Tenants |-> NoFile]),
     OnDisk([t \in Tenants |-> IF t \in Users THEN RssTenant(day) ELSE NoFile]),
     OnDisk([t \in Tenants |-> IF t = 1 THEN RssTenant(day)
                               ELSE IF t = 2 THEN CreatorTenant(day) ELSE NoFile])}

NoEvent == [op |-> "start", t |-> 0]

\* No call observed yet.
NoCall == [fn |-> "", args |-> <<>>, out |-> <<>>]

Event(op, t) == [op |-> op, t |-> t]

Init ==
    /\ clock = StartClock
    /\ store \in InitialStores(StartClock \div MinutesPerDay)
    /\ DEFAULT_CLIENT = ImportedDefaults(StartClock \div MinutesPerDay)
    /\ last_post_at = [t \in Tenants |-> -1]
    /\ pc = "tick"
    /\ queue = <<>>
    /\ now = StartClock
    /\ cur = <<>>
    /\ hpc = "idle"
    /\ hcur = <<>>
    /\ published = [t \in Tenants |-> <<>>]
    /\ limit_days = [t \in Tenants |-> {}]
    /\ ev = NoEvent
    /\ ticks = 0
    /\ events = 0
    /\ call = NoCall

--------------------------------------------------------------------------
(* autopost_loop.  The loop runs without suspension from one await to the  *)
(* next: the awaits are send_message and sleep.  An exception anywhere in  *)
(* the tick is caught by the one try that encloses the for loop.           *)

\* A loop whose try does not catch: the exception ends the task.
ExceptionEscapes == "stopped"

\* Where an exception raised inside the tick takes the loop: `except
\* Exception: pass` falls through to the sleep.
AfterException == "sleep"

Files == {t \in Tenants : store[t] # NoFile}

\* now = datetime.now(); for p in CLIENTS_DIR.glob("*.json"): the order of
\* a glob is whatever the directory yields.
LoopTick ==
    /\ pc = "tick"
    /\ \E order \in Orders(Files) :
         queue' = [i \in 1..Cardinality(Files) |-> order[i]]
    /\ now' = clock
    /\ pc' = "iter"
    /\ ev' = Event("loop_tick", 0)
    /\ UNCHANGED <<store, DEFAULT_CLIENT, clock, last_post_at, cur, hpc, hcur,
                   published, ticks, events, limit_days, call>>

use_schedule(cfg) == cfg.schedule_enabled /\ cfg.schedule_times # <<>>

\* A gate in which the interval clock also holds back a fixed-slot tenant.
GateBothCadences(cfg, today, tnow, prev) ==
    /\ cfg.autopost_enabled
    /\ subscription_ok(cfg, today)
    /\ can_post_more(cfg, today)
    /\ cfg.channel # ""
    /\ use_schedule(cfg) =>
          /\ HHMM(tnow) \in Range(cfg.schedule_times)
          /\ ~(cfg.last_schedule_date = today /\ cfg.last_schedule_time = HHMM(tnow))
    /\ ~(prev # -1 /\ tnow - prev < cfg.interval_minutes)

\* A gate without the autopost_enabled check.
GateIgnoringSwitch(cfg, today, tnow, prev) ==
    /\ subscription_ok(cfg, today)
    /\ can_post_more(cfg, today)
    /\ cfg.channel # ""
    /\ IF use_schedule(cfg)
         THEN /\ HHMM(tnow) \in Range(cfg.schedule_times)
              /\ ~(cfg.last_schedule_date = today /\ cfg.last_schedule_time = HHMM(tnow))
         ELSE ~(prev # -1 /\ tnow - prev < cfg.interval_minutes)

\* The `continue` checks from autopost_enabled to the cadence.
Gate(cfg, today, tnow, prev) ==
    /\ cfg.autopost_enabled
    /\ subscription_ok(cfg, today)
    /\ can_post_more(cfg, today)
    /\ cfg.channel # ""
    /\ IF use_schedule(cfg)
         THEN /\ HHMM(tnow) \in Range(cfg.schedule_times)
              /\ ~(cfg.last_schedule_date = today /\ cfg.last_schedule_time = HHMM(tnow))
         ELSE ~(prev # -1 /\ tnow - prev < cfg.interval_minutes)

\* What the loop holds when it reaches send_message for a tenant: <<>> when
\* it continues to the next tenant instead.  can_post_more has reset the
\* daily counter of the loaded dict in place.
LoopSelect(user_id, cfg0, today, tnow, prev) ==
    LET cfg == ensure_daily_counter(cfg0, today)
        best == pick_newest_unseen(cfg)
    IN IF ~Gate(cfg0, today, tnow, prev) THEN <<>>
       ELSE IF cfg.mode = "creator"
         THEN <<[t |-> user_id, cfg |-> cfg, channel |-> cfg.channel,
                 link |-> <<>>, use_schedule |-> use_schedule(cfg)]>>
       ELSE IF cfg.feeds = <<>> \/ best = <<>> THEN <<>>
       ELSE <<[t |-> user_id, cfg |-> cfg, channel |-> cfg.channel,
               link |-> <<best[1].link>>, use_schedule |-> use_schedule(cfg)]>>

\* Whether the loop gets as far as pick_newest_unseen with this config.
LoopPicks(cfg0, today, tnow, prev) ==
    /\ Gate(cfg0, today, tnow, prev)
    /\ cfg0.mode # "creator"
    /\ cfg0.feeds # <<>>

\* pick_newest_unseen fetches every configured feed.
FetchesFailing(cfg) == Range(cfg.feeds) \cap FetchMayRaise # {}

\* One tenant of the for loop, from load_client up to the await: skipped,
\* or its message generated (creator_make_post / llm_generate_post, which
\* may raise), or cut short by a feedparser.parse that raises.
LoopIter ==
    /\ pc = "iter"
    /\ queue # <<>>
    /\ LET user_id == Head(queue)
           cfg0 == load_client(store, DEFAULT_CLIENT, user_id)
           sel == LoopSelect(user_id, cfg0, Today, now, last_post_at[user_id])
       IN \/ /\ sel = <<>>
             /\ queue' = Tail(queue)
             /\ ev' = Event("loop_skip", user_id)
             /\ UNCHANGED <<pc, cur>>
          \/ /\ sel # <<>>
             /\ cur' = sel
             /\ pc' = "publish"
             /\ ev' = Event("loop_await", user_id)
             /\ UNCHANGED queue
          \/ /\ sel # <<>>
             /\ pc' = AfterException
             /\ ev' = Event("loop_gen_fail", user_id)
             /\ UNCHANGED <<queue, cur>>
          \/ /\ LoopPicks(cfg0, Today, now, last_post_at[user_id])
             /\ FetchesFailing(cfg0)
             /\ pc' = AfterException
             /\ ev' = Event("loop_feed_fail", user_id)
             /\ UNCHANGED <<queue, cur>>
    /\ store' = StoreAfterLoad(store, DEFAULT_CLIENT, Head(queue))
    /\ UNCHANGED <<DEFAULT_CLIENT, clock, last_post_at, now, hpc, hcur,
                   published, ticks, events, limit_days, call>>

\* The for loop is exhausted: on to the sleep.
LoopDone ==
    /\ pc = "iter"
    /\ queue = <<>>
    /\ pc' = "sleep"
    /\ ev' = Event("loop_done", 0)
    /\ UNCHANGED <<store, DEFAULT_CLIENT, clock, last_post_at, queue, now, cur,
                   hpc, hcur, published, ticks, events, limit_days, call>>

\* A confirmed send_message: who sent it, the link of the message (<<>> for
\* a creator post), the day, the tenant's stored daily_limit that day, the
\* time (for the loop, the `now` of its tick), and whether the loop's gate
\* was the fixed-slot one.
Publication(by, c, st) ==
    [by |-> by, link |-> c.link, day |-> Today, limit |-> st[c.t].daily_limit,
     time |-> IF by = "loop" THEN now ELSE clock,
     fixed |-> IF by = "loop" THEN c.use_schedule ELSE FALSE]

\* The history with one more confirmed send_message; it keeps the first
\* MaxHistory of a tenant.
Confirmed(by, c) ==
    IF Len(published[c.t]) < MaxHistory
      THEN [published EXCEPT ![c.t] = Append(@, Publication(by, c, store))]
      ELSE published

\* await app.bot.send_message(...) returns: the message is in the channel.
LoopPublishOk ==
    /\ pc = "publish"
    /\ published' = Confirmed("loop", cur[1])
    /\ pc' = "save"
    /\ ev' = Event("loop_pub_ok", cur[1].t)
    /\ UNCHANGED <<store, DEFAULT_CLIENT, clock, last_post_at, queue, now, cur,
                   hpc, hcur, ticks, events, limit_days, call>>

\* A loop that saves the post and leaves the slot unstamped.
LoopPostedUnstamped(c, today, tnow) ==
    bump_daily_count(IF c.link = <<>> THEN c.cfg ELSE RecordPosted(c.cfg, c.link[1]),
                     today)

\* The config the loop saves after a confirmed publish.
LoopPosted(c, today, tnow) ==
    LET recorded == IF c.link = <<>> THEN c.cfg ELSE RecordPosted(c.cfg, c.link[1])
        bumped == bump_daily_count(recorded, today)
    IN IF c.use_schedule
         THEN [bumped EXCEPT !.last_schedule_date = today,
                             !.last_schedule_time = HHMM(tnow)]
         ELSE bumped

\* A loop that counts the post before it knows the publish succeeded: the
\* failed send_message still leaves the link recorded, the counter bumped
\* and the last-post time set.
LoopPublishFailRecorded ==
    /\ pc = "publish"
    /\ store' = save_client(store, cur[1].t, LoopPosted(cur[1], Today, now))
    /\ last_post_at' = [last_post_at EXCEPT ![cur[1].t] = now]
    /\ pc' = AfterException
    /\ cur' = <<>>
    /\ ev' = Event("loop_pub_fail", cur[1].t)
    /\ UNCHANGED <<DEFAULT_CLIENT, clock, queue, now, hpc, hcur, published,
                   ticks, events, limit_days, call>>

\* await app.bot.send_message(...) raises.
LoopPublishFail ==
    /\ pc = "publish"
    /\ pc' = AfterException
    /\ cur' = <<>>
    /\ ev' = Event("loop_pub_fail", cur[1].t)
    /\ UNCHANGED <<store, DEFAULT_CLIENT, clock, last_post_at, queue, now,
                   hpc, hcur, published, ticks, events, limit_days, call>>

\* From the confirmed publish to last_post_at[user_id] = now.
LoopSave ==
    /\ pc = "save"
    /\ store' = save_client(store, cur[1].t, LoopPosted(cur[1], Today, now))
    /\ last_post_at' = [last_post_at EXCEPT ![cur[1].t] = now]
    /\ queue' = Tail(queue)
    /\ cur' = <<>>
    /\ pc' = "iter"
    /\ ev' = Event("loop_save", cur[1].t)
    /\ UNCHANGED <<DEFAULT_CLIENT, clock, now, hpc, hcur, published, ticks, events, limit_days, call>>

\* save_client raises (write_text fails).
LoopSaveFail ==
    /\ pc = "save"
    /\ pc' = AfterException
    /\ cur' = <<>>
    /\ ev' = Event("loop_save_fail", cur[1].t)
    /\ UNCHANGED <<store, DEFAULT_CLIENT, clock, last_post_at, queue, now,
                   hpc, hcur, published, ticks, events, limit_days, call>>

\* await asyncio.sleep(60) returns, d minutes after the tick began.
LoopWake ==
    /\ pc = "sleep"
    /\ ticks < MaxTicks
    /\ \E d \in Elapse : clock' = clock + d
    /\ ticks' = ticks + 1
    /\ pc' = "tick"
    /\ ev' = Event("wake", 0)
    /\ UNCHANGED <<store, DEFAULT_CLIENT, last_post_at, queue, now, cur, hpc,
                   hcur, published, events, limit_days, call>>

\* A restart after which the loop still knows when it last posted.
RestartKeepingClock ==
    /\ pc \in {"sleep", "publish", "save"}
    /\ events < MaxEvents
    /\ events' = events + 1
    /\ DEFAULT_CLIENT' = ImportedDefaults(Today)
    /\ pc' = "tick"
    /\ queue' = <<>>
    /\ cur' = <<>>
    /\ hpc' = "idle"
    /\ hcur' = <<>>
    /\ ev' = Event("restart", 0)
    /\ UNCHANGED <<store, clock, last_post_at, now, published, ticks,
                   limit_days, call>>

\* The process stops and is started again: the module is imported anew and
\* on_startup starts a new autopost_loop.  A stop in the middle of the
\* synchronous code between two awaits leaves the files as a stop at the
\* await before it or after it does, so the stops modelled are those at an
\* await and the one between the confirmed publish and save_client.
Restart ==
    /\ pc \in {"sleep", "publish", "save"}
    /\ events < MaxEvents
    /\ events' = events + 1
    /\ DEFAULT_CLIENT' = ImportedDefaults(Today)
    /\ last_post_at' = [t \in Tenants |-> -1]
    /\ pc' = "tick"
    /\ queue' = <<>>
    /\ cur' = <<>>
    /\ hpc' = "idle"
    /\ hcur' = <<>>
    /\ ev' = Event("restart", 0)
    /\ UNCHANGED <<store, clock, now, published, ticks, limit_days, call>>

--------------------------------------------------------------------------
(* Command handlers.  The application handles one update at a time, and a  *)
(* handler runs only while the loop is suspended at an await.  A handler   *)
(* with no await between its load_client and its save_client is one step. *)

ADMIN_IDS == {1}

is_admin(user_id) == user_id \in ADMIN_IDS

CmdReady ==
    /\ hpc = "idle"
    /\ pc \in {"sleep", "publish"}
    /\ events < MaxEvents

Handled(op, user_id) ==
    /\ events' = events + 1
    /\ ev' = Event(op, user_id)

\* What a handler that only assigns keys of its loaded config leaves in the
\* store.
Assigned(user_id, cfg) ==
    save_client(StoreAfterLoad(store, DEFAULT_CLIENT, user_id), user_id, cfg)

autoposton_cmd(user_id) ==
    /\ CmdReady
    /\ LET cfg == load_client(store, DEFAULT_CLIENT, user_id)
       IN store' = Assigned(user_id, [cfg EXCEPT !.autopost_enabled = TRUE])
    /\ Handled("autoposton", user_id)
    /\ UNCHANGED <<DEFAULT_CLIENT, clock, last_post_at, pc, queue, now, cur,
                   hpc, hcur, published, ticks, limit_days, call>>

autopostoff_cmd(user_id) ==
    /\ CmdReady
    /\ LET cfg == load_client(store, DEFAULT_CLIENT, user_id)
       IN store' = Assigned(user_id, [cfg EXCEPT !.autopost_enabled = FALSE])
    /\ Handled("autopostoff", user_id)
    /\ UNCHANGED <<DEFAULT_CLIENT, clock, last_post_at, pc, queue, now, cur,
                   hpc, hcur, published, ticks, limit_days, call>>

unsetchannel_cmd(user_id) ==
    /\ CmdReady
    /\ LET cfg == load_client(store, DEFAULT_CLIENT, user_id)
       IN store' = Assigned(user_id, [cfg EXCEPT !.channel = ""])
    /\ Handled("unsetchannel", user_id)
    /\ UNCHANGED <<DEFAULT_CLIENT, clock, last_post_at, pc, queue, now, cur,
                   hpc, hcur, published, ticks, limit_days, call>>

\* feeds = cfg.get("feeds", []) is the list object the config holds: for a
\* config load_client has just made from dict(DEFAULT_CLIENT) that object is
\* DEFAULT_CLIENT["feeds"], and feeds.append(url) appends to it.
SharedAppend(d, key, fresh, x) ==
    IF fresh THEN [d EXCEPT ![key] = Append(@, x)] ELSE d

\* url is "" when the command has no argument.
addfeed_cmd(user_id, url) ==
    /\ CmdReady
    /\ LET fresh == SharesDefault(store, user_id, "feeds")
           cfg == load_client(store, DEFAULT_CLIENT, user_id)
           rejected == \/ url = ""
                       \/ url \in Range(cfg.feeds)
                       \/ FeedEntries(url) = <<>>
       IN IF rejected
            THEN /\ store' = StoreAfterLoad(store, DEFAULT_CLIENT, user_id)
                 /\ UNCHANGED DEFAULT_CLIENT
            ELSE /\ store' = Assigned(user_id,
                                [cfg EXCEPT !.feeds = Append(cfg.feeds, url)])
                 /\ DEFAULT_CLIENT' = SharedAppend(DEFAULT_CLIENT, "feeds", fresh, url)
    /\ Handled("addfeed", user_id)
    /\ UNCHANGED <<clock, last_post_at, pc, queue, now, cur, hpc, hcur,
                   published, ticks, limit_days, call>>

\* validate_hhmm on the argument: two digits, a colon, two digits, the hour
\* in 0..23 and the minute in 0..59.  An argument is the minute of the day
\* it names, and -1 when it is missing or no such string.
validate_hhmm(value) == value \in 0..(MinutesPerDay - 1)

\* /schedule <action> [HH:MM].  times = cfg.get("schedule_times", []) is the
\* list object the config holds (see addfeed_cmd), and `add` appends to it
\* before cfg["schedule_times"] is rebound to a new sorted list.
schedule_cmd(user_id, action, hhmm) ==
    /\ CmdReady
    /\ LET fresh == SharesDefault(store, user_id, "schedule_times")
           cfg == load_client(store, DEFAULT_CLIENT, user_id)
           times == cfg.schedule_times
           loaded == StoreAfterLoad(store, DEFAULT_CLIENT, user_id)
       IN CASE action = "add" ->
                 IF ~validate_hhmm(hhmm)
                   THEN store' = loaded /\ UNCHANGED DEFAULT_CLIENT
                   ELSE LET appended == IF hhmm \in Range(times) THEN times
                                        ELSE Append(times, hhmm)
                        IN /\ store' = Assigned(user_id,
                                  [cfg EXCEPT !.schedule_times = SortedSeq(Range(appended))])
                           /\ DEFAULT_CLIENT' =
                                  IF hhmm \in Range(times) THEN DEFAULT_CLIENT
                                  ELSE SharedAppend(DEFAULT_CLIENT, "schedule_times", fresh, hhmm)
            [] action = "remove" ->
                 /\ UNCHANGED DEFAULT_CLIENT
                 /\ IF ~validate_hhmm(hhmm)
                      THEN store' = loaded
                      ELSE store' = Assigned(user_id,
                               [cfg EXCEPT !.schedule_times =
                                   SelectSeq(times, LAMBDA x : x # hhmm)])
            [] action = "clear" ->
                 /\ UNCHANGED DEFAULT_CLIENT
                 /\ store' = Assigned(user_id,
                        [cfg EXCEPT !.schedule_times = <<>>,
                                    !.last_schedule_date = -1,
                                    !.last_schedule_time = -1])
            [] action = "on" ->
                 /\ UNCHANGED DEFAULT_CLIENT
                 /\ store' = Assigned(user_id,
                        [cfg EXCEPT !.schedule_enabled = TRUE])
            [] action = "off" ->
                 /\ UNCHANGED DEFAULT_CLIENT
                 /\ store' = Assigned(user_id,
                        [cfg EXCEPT !.schedule_enabled = FALSE])
            [] OTHER ->
                 store' = loaded /\ UNCHANGED DEFAULT_CLIENT
    /\ Handled("schedule", user_id)
    /\ UNCHANGED <<clock, last_post_at, pc, queue, now, cur, hpc, hcur,
                   published, ticks, limit_days, call>>

\* /setlimit <user_id> <limit> with both arguments digits.  A caller who is
\* no admin is answered through tr(load_client(caller), ...).
setlimit_cmd(caller, uid, limit) ==
    /\ CmdReady
    /\ IF ~is_admin(caller)
         THEN /\ store' = StoreAfterLoad(store, DEFAULT_CLIENT, caller)
              /\ UNCHANGED limit_days
         ELSE IF limit < 1 \/ limit > 5000
           THEN UNCHANGED <<store, limit_days>>
           ELSE LET cfg == load_client(store, DEFAULT_CLIENT, uid)
                IN /\ store' = Assigned(uid, [cfg EXCEPT !.daily_limit = limit])
                   /\ limit_days' =
                         IF cfg.daily_limit = limit THEN limit_days
                         ELSE [limit_days EXCEPT ![uid] = @ \cup {Today}]
    /\ IF is_admin(caller) THEN Handled("setlimit", uid)
                          ELSE Handled("admin_only", caller)
    /\ UNCHANGED <<DEFAULT_CLIENT, clock, last_post_at, pc, queue, now, cur,
                   hpc, hcur, published, ticks, call>>

\* /deactivate <user_id> with the argument digits.
deactivate_cmd(caller, uid) ==
    /\ CmdReady
    /\ IF ~is_admin(caller)
         THEN store' = StoreAfterLoad(store, DEFAULT_CLIENT, caller)
         ELSE LET cfg == load_client(store, DEFAULT_CLIENT, uid)
              IN store' = Assigned(uid, [cfg EXCEPT !.subscription_until = -1])
    /\ IF is_admin(caller) THEN Handled("deactivate", uid)
                          ELSE Handled("admin_only", caller)
    /\ UNCHANGED <<DEFAULT_CLIENT, clock, last_post_at, pc, queue, now, cur,
                   hpc, hcur, published, ticks, limit_days, call>>

\* The arguments of the model as the user types them.  str.isdigit holds of
\* the ones made of digits alone; int() raises ValueError on "x" and reads
\* the others.
isdigit(raw) == raw \in {"0", "1", "4", "5", "1440", "1441", "3651"}

IsInteger(raw) == isdigit(raw) \/ raw = "-5"

int(raw) ==
    CASE raw = "-5" -> 0 - 5
      [] raw = "0" -> 0
      [] raw = "1" -> 1
      [] raw = "4" -> 4
      [] raw = "5" -> 5
      [] raw = "1440" -> 1440
      [] raw = "1441" -> 1441
      [] raw = "3651" -> 3651

\* An /interval that saves whatever number it is given.
IntervalUnchecked(user_id, args) ==
    /\ CmdReady
    /\ LET cfg == load_client(store, DEFAULT_CLIENT, user_id)
       IN IF args = <<>> \/ ~IsInteger(args[1])
            THEN /\ store' = StoreAfterLoad(store, DEFAULT_CLIENT, user_id)
                 /\ Handled("interval_reject", user_id)
            ELSE /\ store' = Assigned(user_id,
                                      [cfg EXCEPT !.interval_minutes = int(args[1])])
                 /\ Handled("interval", user_id)
    /\ UNCHANGED <<DEFAULT_CLIENT, clock, last_post_at, pc, queue, now, cur,
                   hpc, hcur, published, ticks, limit_days, call>>

\* /interval [minutes]: loads the caller's config, then rejects a missing
\* argument, one that int() does not read, and a number outside 5..1440.
interval_cmd(user_id, args) ==
    /\ CmdReady
    /\ LET cfg == load_client(store, DEFAULT_CLIENT, user_id)
       IN IF \/ args = <<>>
             \/ ~IsInteger(args[1])
             \/ int(args[1]) < 5
             \/ int(args[1]) > 1440
            THEN /\ store' = StoreAfterLoad(store, DEFAULT_CLIENT, user_id)
                 /\ Handled("interval_reject", user_id)
            ELSE /\ store' = Assigned(user_id,
                                      [cfg EXCEPT !.interval_minutes = int(args[1])])
                 /\ Handled("interval", user_id)
    /\ UNCHANGED <<DEFAULT_CLIENT, clock, last_post_at, pc, queue, now, cur,
                   hpc, hcur, published, ticks, limit_days, call>>

\* An /activate that looks at the caller only after it has saved.
ActivateThenCheck(caller, uid, days_raw) ==
    /\ CmdReady
    /\ IF ~isdigit(days_raw) \/ int(days_raw) < 1 \/ int(days_raw) > 3650
         THEN /\ UNCHANGED store
              /\ Handled("activate_reject", caller)
         ELSE LET cfg == load_client(store, DEFAULT_CLIENT, uid)
              IN /\ store' = Assigned(uid, [cfg EXCEPT !.subscription_until =
                                                          Today + int(days_raw)])
                 /\ IF is_admin(caller) THEN Handled("activate", uid)
                                       ELSE Handled("admin_only", caller)
    /\ UNCHANGED <<DEFAULT_CLIENT, clock, last_post_at, pc, queue, now, cur,
                   hpc, hcur, published, ticks, limit_days, call>>

\* /activate <user_id> <days> with the first argument digits.
activate_cmd(caller, uid, days_raw) ==
    /\ CmdReady
    /\ IF ~is_admin(caller)
         THEN /\ store' = StoreAfterLoad(store, DEFAULT_CLIENT, caller)
              /\ Handled("admin_only", caller)
         ELSE IF ~isdigit(days_raw) \/ int(days_raw) < 1 \/ int(days_raw) > 3650
           THEN /\ UNCHANGED store
                /\ Handled("activate_reject", caller)
           ELSE LET cfg == load_client(store, DEFAULT_CLIENT, uid)
                IN /\ store' = Assigned(uid, [cfg EXCEPT !.subscription_until =
                                                            Today + int(days_raw)])
                   /\ Handled("activate", uid)
    /\ UNCHANGED <<DEFAULT_CLIENT, clock, last_post_at, pc, queue, now, cur,
                   hpc, hcur, published, ticks, limit_days, call>>

\* /setinterval <user_id> <minutes> with the first argument digits.
setinterval_admin_cmd(caller, uid, minutes_raw) ==
    /\ CmdReady
    /\ IF ~is_admin(caller)
         THEN /\ store' = StoreAfterLoad(store, DEFAULT_CLIENT, caller)
              /\ Handled("admin_only", caller)
         ELSE IF ~isdigit(minutes_raw) \/ int(minutes_raw) < 5 \/ int(minutes_raw) > 1440
           THEN /\ UNCHANGED store
                /\ Handled("setinterval_reject", caller)
           ELSE LET cfg == load_client(store, DEFAULT_CLIENT, uid)
                IN /\ store' = Assigned(uid, [cfg EXCEPT !.interval_minutes =
                                                            int(minutes_raw)])
                   /\ Handled("setinterval", uid)
    /\ UNCHANGED <<DEFAULT_CLIENT, clock, last_post_at, pc, queue, now, cur,
                   hpc, hcur, published, ticks, limit_days, call>>

\* A /fetchonce without the channel check.
FetchSelectAnyChannel(user_id, cfg0, today) ==
    LET cfg == ensure_daily_counter(cfg0, today)
        best == pick_newest_unseen(cfg)
    IN IF ~subscription_ok(cfg0, today) THEN <<>>
       ELSE IF ~can_post_more(cfg0, today) THEN <<>>
       ELSE IF cfg.mode = "creator"
         THEN <<[t |-> user_id, cfg |-> cfg, channel |-> cfg.channel, link |-> <<>>]>>
       ELSE IF cfg.feeds = <<>> \/ best = <<>> THEN <<>>
       ELSE <<[t |-> user_id, cfg |-> cfg, channel |-> cfg.channel,
               link |-> <<best[1].link>>]>>

\* What fetchonce_cmd holds when it reaches send_message: <<>> when it
\* replies and returns instead.
FetchSelect(user_id, cfg0, today) ==
    LET cfg == ensure_daily_counter(cfg0, today)
        best == pick_newest_unseen(cfg)
    IN IF ~subscription_ok(cfg0, today) THEN <<>>
       ELSE IF ~can_post_more(cfg0, today) THEN <<>>
       ELSE IF cfg.channel = "" THEN <<>>
       ELSE IF cfg.mode = "creator"
         THEN <<[t |-> user_id, cfg |-> cfg, channel |-> cfg.channel, link |-> <<>>]>>
       ELSE IF cfg.feeds = <<>> \/ best = <<>> THEN <<>>
       ELSE <<[t |-> user_id, cfg |-> cfg, channel |-> cfg.channel,
               link |-> <<best[1].link>>]>>

\* Whether /fetchonce gets as far as pick_newest_unseen with this config.
FetchPicks(cfg0, today) ==
    /\ subscription_ok(cfg0, today)
    /\ can_post_more(cfg0, today)
    /\ cfg0.channel # ""
    /\ cfg0.mode # "creator"
    /\ cfg0.feeds # <<>>

\* /fetchonce up to its await: a reply, or the message generated
\* (creator_make_post / llm_generate_post, which may raise), or the handler
\* ended by a feedparser.parse that raises.
fetchonce_cmd(user_id) ==
    /\ CmdReady
    /\ store' = StoreAfterLoad(store, DEFAULT_CLIENT, user_id)
    /\ events' = events + 1
    /\ LET cfg0 == load_client(store, DEFAULT_CLIENT, user_id)
           sel == FetchSelect(user_id, cfg0, Today)
       IN \/ /\ sel = <<>>
             /\ ev' = Event("fetch_reply", user_id)
             /\ UNCHANGED <<hpc, hcur>>
          \/ /\ sel # <<>>
             /\ hcur' = sel
             /\ hpc' = "publish"
             /\ ev' = Event("fetch_await", user_id)
          \/ /\ sel # <<>>
             /\ ev' = Event("fetch_gen_fail", user_id)
             /\ UNCHANGED <<hpc, hcur>>
          \/ /\ FetchPicks(cfg0, Today)
             /\ FetchesFailing(cfg0)
             /\ ev' = Event("fetch_feed_fail", user_id)
             /\ UNCHANGED <<hpc, hcur>>
    /\ UNCHANGED <<DEFAULT_CLIENT, clock, last_post_at, pc, queue, now, cur,
                   published, ticks, limit_days, call>>

\* The config /fetchonce saves after its send_message.
FetchPosted(c, today) ==
    bump_daily_count(IF c.link = <<>> THEN c.cfg ELSE RecordPosted(c.cfg, c.link[1]),
                     today)

HandlerResumes ==
    /\ hpc = "publish"
    /\ pc \in {"sleep", "publish"}

\* /fetchonce: send_message returns, and the handler runs on to its save.
FetchPublishOk ==
    /\ HandlerResumes
    /\ published' = Confirmed("fetchonce", hcur[1])
    /\ store' = save_client(store, hcur[1].t, FetchPosted(hcur[1], Today))
    /\ hpc' = "idle"
    /\ hcur' = <<>>
    /\ ev' = Event("fetch_pub_ok", hcur[1].t)
    /\ UNCHANGED <<DEFAULT_CLIENT, clock, last_post_at, pc, queue, now, cur,
                   ticks, events, limit_days, call>>

\* A /fetchonce that records the link before it knows the publish
\* succeeded: the failed send_message leaves the post saved.
FetchPublishFailRecorded ==
    /\ HandlerResumes
    /\ store' = save_client(store, hcur[1].t, FetchPosted(hcur[1], Today))
    /\ hpc' = "idle"
    /\ hcur' = <<>>
    /\ ev' = Event("fetch_pub_fail", hcur[1].t)
    /\ UNCHANGED <<DEFAULT_CLIENT, clock, last_post_at, pc, queue, now, cur,
                   published, ticks, events, limit_days, call>>

\* /fetchonce: send_message raises, and the handler ends there.
FetchPublishFail ==
    /\ HandlerResumes
    /\ hpc' = "idle"
    /\ hcur' = <<>>
    /\ ev' = Event("fetch_pub_fail", hcur[1].t)
    /\ UNCHANGED <<store, DEFAULT_CLIENT, clock, last_post_at, pc, queue, now, cur,
                   published, ticks, events, limit_days, call>>

ScheduleArgs == {<<"add", 10 * 60>>, <<"on", -1>>}

Command ==
    \/ \E user_id \in Users : autoposton_cmd(user_id)
    \/ \E user_id \in Users : autopostoff_cmd(user_id)
    \/ \E user_id \in Users : unsetchannel_cmd(user_id)
    \/ \E user_id \in Users, url \in {"f1", "f2"} : addfeed_cmd(user_id, url)
    \/ \E user_id \in Users, a \in ScheduleArgs : schedule_cmd(user_id, a[1], a[2])
    \/ \E caller \in Users, uid \in Users, limit \in {1} :
          setlimit_cmd(caller, uid, limit)
    \/ \E caller \in Users, uid \in Users : deactivate_cmd(caller, uid)
    \/ \E user_id \in Users : fetchonce_cmd(user_id)
    \/ FetchPublishOk
    \/ FetchPublishFail

Loop ==
    \/ LoopTick
    \/ LoopIter
    \/ LoopDone
    \/ LoopPublishOk
    \/ LoopPublishFail
    \/ LoopSave
    \/ LoopSaveFail

Next ==
    \/ Loop
    \/ LoopWake
    \/ Restart
    \/ Command

Spec == Init /\ [][Next]_vars

--------------------------------------------------------------------------
(* One lifetime of the process, with no end to the ticks: beyond MaxTicks  *)
(* sleeps the loop goes on and the clock of the model stays where it is.   *)
(* The event loop runs a task whose await has completed, send_message      *)
(* returns or raises within its timeout and the sleep ends: the steps of   *)
(* the loop are weakly fair.                                                *)

LoopWakes ==
    /\ pc = "sleep"
    /\ IF ticks < MaxTicks
         THEN /\ \E d \in Elapse : clock' = clock + d
              /\ ticks' = ticks + 1
         ELSE UNCHANGED <<clock, ticks>>
    /\ pc' = "tick"
    /\ ev' = Event("wake", 0)
    /\ UNCHANGED <<store, DEFAULT_CLIENT, last_post_at, queue, now, cur, hpc,
                   hcur, published, events, limit_days, call>>

\* The loop alone: no command changes where the loop is, and the event
\* loop keeps scheduling the task, so each step it can take is taken.
LiveNext ==
    \/ Loop
    \/ LoopWakes

LiveSpec == Init /\ [][LiveNext]_vars /\ WF_vars(LiveNext)

--------------------------------------------------------------------------
(* The loop with /interval and the admin commands: /activate, /deactivate, *)
(* /setlimit and /setinterval, from an admin and from a tenant who is no   *)
(* admin.                                                                  *)

IntervalArgs == {<<>>, <<"x">>, <<"-5">>, <<"4">>, <<"5">>, <<"1440">>, <<"1441">>}

MinutesArgs == {"x", "4", "5", "1440", "1441"}

DaysArgs == {"x", "0", "1", "3651"}

AdminNext ==
    \/ Loop
    \/ LoopWake
    \/ \E user_id \in Users, args \in IntervalArgs : interval_cmd(user_id, args)
    \/ \E caller \in Users, uid \in Users, minutes_raw \in MinutesArgs :
          setinterval_admin_cmd(caller, uid, minutes_raw)
    \/ \E caller \in Users, uid \in Users, days_raw \in DaysArgs :
          activate_cmd(caller, uid, days_raw)
    \/ \E caller \in Users, uid \in Users, limit \in {1} :
          setlimit_cmd(caller, uid, limit)
    \/ \E caller \in Users, uid \in Users : deactivate_cmd(caller, uid)

AdminSpec == Init /\ [][AdminNext]_vars

--------------------------------------------------------------------------
(* /schedule alone, from tenants who have no file yet, while the loop      *)
(* sleeps: the process as imported, and the process after the first        *)
(* tenant's /schedule add.                                                 *)

Slots == {9 * 60, 10 * 60}

\* /schedule with no or an unknown action, and each action, with no slot,
\* with no valid slot (both -1) and with a slot.
ScheduleCommands ==
    {<<"", -1>>, <<"clear", -1>>, <<"on", -1>>, <<"off", -1>>}
      \cup ({"add", "remove"} \X ({-1} \cup Slots))

\* The store and DEFAULT_CLIENT once tenant 1, who had no file, has sent
\* /schedule add with the slot hhmm.
AfterFirstAdd(day, hhmm) ==
    LET d == ImportedDefaults(day)
        st == OnDisk([t \in Tenants |-> NoFile])
    IN [store |-> save_client(StoreAfterLoad(st, d, 1), 1,
                              [ClientDefaults(d) EXCEPT !.schedule_times = <<hhmm>>]),
        DEFAULT_CLIENT |-> SharedAppend(d, "schedule_times", TRUE, hhmm)]

ScheduleInit ==
    /\ clock = StartClock
    /\ \/ /\ store = OnDisk([t \in Tenants |-> NoFile])
          /\ DEFAULT_CLIENT = ImportedDefaults(StartClock \div MinutesPerDay)
       \/ \E hhmm \in Slots :
             LET after == AfterFirstAdd(StartClock \div MinutesPerDay, hhmm)
             IN /\ store = after.store
                /\ DEFAULT_CLIENT = after.DEFAULT_CLIENT
    /\ last_post_at = [t \in Tenants |-> -1]
    /\ pc = "sleep"
    /\ queue = <<>>
    /\ now = StartClock
    /\ cur = <<>>
    /\ hpc = "idle"
    /\ hcur = <<>>
    /\ published = [t \in Tenants |-> <<>>]
    /\ limit_days = [t \in Tenants |-> {}]
    /\ ev = NoEvent
    /\ ticks = 0
    /\ events = 0
    /\ call = NoCall

ScheduleNext ==
    \E user_id \in Tenants, a \in ScheduleCommands : schedule_cmd(user_id, a[1], a[2])

ScheduleSpec == ScheduleInit /\ [][ScheduleNext]_vars

--------------------------------------------------------------------------
(* The loop and /fetchonce over records as the store may hold them: a      *)
(* record is a JSON file, and beside what the commands write (the feeds,   *)
(* the channel, the subscription date, the daily limit and counter) it     *)
(* holds max_dedupe and whatever an operator has put into the file.        *)

\* The daily limit, counter and date of a stored record: a fresh counter,
\* a limit reached yesterday, a limit reached today.
StoredQuotas(day) ==
    {[daily_limit |-> 10, daily_count |-> 0, daily_date |-> day],
     [daily_limit |-> 1, daily_count |-> 1, daily_date |-> day - 1],
     [daily_limit |-> 1, daily_count |-> 1, daily_date |-> day]}

StoredConfigs(day) ==
    {[RssTenant(day) EXCEPT
         !.mode = mode, !.feeds = feeds, !.channel = channel,
         !.max_dedupe = max_dedupe,
         !.subscription_until = until,
         !.daily_limit = q.daily_limit, !.daily_count = q.daily_count,
         !.daily_date = q.daily_date] :
       mode \in {"rss", "creator"},
       feeds \in {<<>>, <<"f1", "f2">>, <<"f4", "f1">>},
       channel \in {"", "@c"},
       max_dedupe \in {0, 1, 1500},
       until \in {-1, Unparseable, day - 1, day, day + 1},
       q \in StoredQuotas(day)}

StoredInit ==
    /\ clock = StartClock
    /\ \E cfg \in StoredConfigs(StartClock \div MinutesPerDay) :
          store = OnDisk([t \in Tenants |-> IF t = 1 THEN cfg ELSE NoFile])
    /\ DEFAULT_CLIENT = ImportedDefaults(StartClock \div MinutesPerDay)
    /\ last_post_at = [t \in Tenants |-> -1]
    /\ pc = "tick"
    /\ queue = <<>>
    /\ now = StartClock
    /\ cur = <<>>
    /\ hpc = "idle"
    /\ hcur = <<>>
    /\ published = [t \in Tenants |-> <<>>]
    /\ limit_days = [t \in Tenants |-> {}]
    /\ ev = NoEvent
    /\ ticks = 0
    /\ events = 0
    /\ call = NoCall

StoredNext ==
    \/ Loop
    \/ LoopWake
    \/ \E user_id \in Users : fetchonce_cmd(user_id)
    \/ FetchPublishOk
    \/ FetchPublishFail

StoredSpec == StoredInit /\ [][StoredNext]_vars

--------------------------------------------------------------------------
(* normalize_url and sanitize_llm_post on their own: an input is drawn and *)
(* the function applied to it.                                             *)

MaxQuery == 2
MaxTokens == 3

Seqs(S, n) == UNION {[1..m -> S] : m \in 0..n}

\* The fields of a query as written: a key with the value 1, and id with a
\* value that holds a space, written either way, or a percent sign.
Fields ==
    {[k |-> k, v |-> "1"] : k \in QueryKeys}
      \cup {[k |-> "id", v |-> v] : v \in {"a%20b", "a+b", "%2520"}}

\* URLs of two pages: the query holds up to MaxQuery fields.
Urls ==
    {Url(path, q, fragment) :
       path \in {"/a", "/b"},
       q \in Seqs(Fields, MaxQuery),
       fragment \in {"", "top"}}

\* The tokens of a backend text: short and long words, a URL, "1.", "link:".
Tokens ==
    {Piece("word", 5), Piece("word", 450), Piece("word", 900),
     Piece("url", 20), Piece("number", 2), Piece("label", 5)}

Texts == {Joined(tokens) : tokens \in Seqs(Tokens, MaxTokens)}

\* The canonical link of the item.
CanonicalLink == Piece("link", 20)

PureInit ==
    /\ clock = StartClock
    /\ store = OnDisk([t \in Tenants |-> NoFile])
    /\ DEFAULT_CLIENT = ImportedDefaults(StartClock \div MinutesPerDay)
    /\ last_post_at = [t \in Tenants |-> -1]
    /\ pc = "tick"
    /\ queue = <<>>
    /\ now = StartClock
    /\ cur = <<>>
    /\ hpc = "idle"
    /\ hcur = <<>>
    /\ published = [t \in Tenants |-> <<>>]
    /\ limit_days = [t \in Tenants |-> {}]
    /\ ev = NoEvent
    /\ ticks = 0
    /\ events = 0
    /\ \/ \E a, b \in Urls :
            call = [fn |-> "", args |-> <<a, b>>, out |-> <<>>]
       \/ \E text \in Texts :
            call = [fn |-> "", args |-> <<text>>, out |-> <<>>]

\* normalize_url(a) and normalize_url(b).
NormalizeUrls ==
    /\ call.fn = ""
    /\ Len(call.args) = 2
    /\ call' = [call EXCEPT !.fn = "normalize_url",
                            !.out = <<normalize_url(call.args[1]),
                                      normalize_url(call.args[2])>>]
    /\ UNCHANGED <<store, DEFAULT_CLIENT, clock, last_post_at, pc, queue, now,
                   cur, hpc, hcur, published, limit_days, ev, ticks, events>>

\* normalize_url of what normalize_url returned.
NormalizeAgain ==
    /\ call.fn = "normalize_url"
    /\ call.args # call.out
    /\ call' = [call EXCEPT !.args = call.out,
                            !.out = <<normalize_url(call.out[1]),
                                      normalize_url(call.out[2])>>]
    /\ UNCHANGED <<store, DEFAULT_CLIENT, clock, last_post_at, pc, queue, now,
                   cur, hpc, hcur, published, limit_days, ev, ticks, events>>

\* sanitize_llm_post(text, link).
SanitizePost ==
    /\ call.fn = ""
    /\ Len(call.args) = 1
    /\ call' = [call EXCEPT !.fn = "sanitize_llm_post",
                            !.out = sanitize_llm_post(call.args[1], CanonicalLink)]
    /\ UNCHANGED <<store, DEFAULT_CLIENT, clock, last_post_at, pc, queue, now,
                   cur, hpc, hcur, published, limit_days, ev, ticks, events>>

PureNext ==
    \/ NormalizeUrls
    \/ NormalizeAgain
    \/ SanitizePost

PureSpec == PureInit /\ [][PureNext]_vars

--------------------------------------------------------------------------
(* The loop over one tenant's feeds: which feeds are configured and in     *)
(* which order, which links were posted before, how many entries of a feed *)
(* are looked at.  Nothing else runs.                                      *)

FeedLists ==
    {<<"f1">>, <<"f2">>, <<"f4">>, <<"f1", "f2">>, <<"f2", "f1">>,
     <<"f1", "f3">>, <<"f3", "f1">>, <<"f2", "f3">>, <<"f4", "f1">>,
     <<"f1", "f4">>, <<"f3", "f4", "f2">>}

\* The normalized links of the world.
Links == <<Url("/a", <<>>, ""), Url("/b", <<>>, ""), Url("/c", <<>>, ""),
           Url("/d", <<[k |-> "id", v |-> "a+b"]>>, "")>>

PostedLists ==
    {SelectSeq(Links, LAMBDA l : l \in S) : S \in SUBSET Range(Links)}

FeedConfigs(day) ==
    {[RssTenant(day) EXCEPT
         !.feeds = feeds, !.posted_urls = posted,
         !.fetch_entries_per_feed = per_feed] :
       feeds \in FeedLists, posted \in PostedLists, per_feed \in {1, 15}}

FeedInit ==
    /\ clock = StartClock
    /\ \E cfg \in FeedConfigs(StartClock \div MinutesPerDay) :
          store = OnDisk([t \in Tenants |-> IF t = 1 THEN cfg ELSE NoFile])
    /\ DEFAULT_CLIENT = ImportedDefaults(StartClock \div MinutesPerDay)
    /\ last_post_at = [t \in Tenants |-> -1]
    /\ pc = "tick"
    /\ queue = <<>>
    /\ now = StartClock
    /\ cur = <<>>
    /\ hpc = "idle"
    /\ hcur = <<>>
    /\ published = [t \in Tenants |-> <<>>]
    /\ limit_days = [t \in Tenants |-> {}]
    /\ ev = NoEvent
    /\ ticks = 0
    /\ events = 0
    /\ call = NoCall

FeedNext ==
    \/ Loop
    \/ LoopWake

FeedSpec == FeedInit /\ [][FeedNext]_vars

--------------------------------------------------------------------------
(* load_client over files as they may lie in the clients directory: none,  *)
(* text that is no JSON, JSON that is no object, a record written before   *)
(* the schedule keys existed, a record with every key.                     *)

ScheduleKeys ==
    {"schedule_enabled", "schedule_times", "last_schedule_date",
     "last_schedule_time"}

\* A record whose feed holds nothing that was not posted before.
SeenRecord(day) ==
    [RssTenant(day) EXCEPT
        !.posted_urls = <<Url("/a", <<>>, ""), Url("/b", <<>>, "")>>]

\* Such a record, written before the schedule keys existed.
PartialRecord(day) ==
    [k \in DOMAIN SeenRecord(day) \ ScheduleKeys |-> SeenRecord(day)[k]]

StoredFiles(day) ==
    {NoFile, NotJson, NotObject, PartialRecord(day), RssTenant(day),
     SeenRecord(day)}

LoadInit ==
    /\ clock = StartClock
    /\ \E records \in [Users -> StoredFiles(StartClock \div MinutesPerDay)] :
          store = OnDisk([t \in Tenants |-> IF t \in Users THEN records[t] ELSE NoFile])
    /\ DEFAULT_CLIENT = ImportedDefaults(StartClock \div MinutesPerDay)
    /\ last_post_at = [t \in Tenants |-> -1]
    /\ pc = "tick"
    /\ queue = <<>>
    /\ now = StartClock
    /\ cur = <<>>
    /\ hpc = "idle"
    /\ hcur = <<>>
    /\ published = [t \in Tenants |-> <<>>]
    /\ limit_days = [t \in Tenants |-> {}]
    /\ ev = NoEvent
    /\ ticks = 0
    /\ events = 0
    /\ call = NoCall

\* /status: cfg = ensure_daily_counter(load_client(user_id)), then the reply
\* that shows cfg; nothing is saved beyond what the load saves.
status_cmd(user_id) ==
    /\ CmdReady
    /\ store' = StoreAfterLoad(store, DEFAULT_CLIENT, user_id)
    /\ call' = [fn |-> "load_client", args |-> <<user_id>>,
                out |-> load_client(store, DEFAULT_CLIENT, user_id)]
    /\ Handled("status", user_id)
    /\ UNCHANGED <<DEFAULT_CLIENT, clock, last_post_at, pc, queue, now, cur,
                   hpc, hcur, published, ticks, limit_days>>

LoadNext ==
    \/ Loop
    \/ LoopWake
    \/ \E user_id \in Users : status_cmd(user_id)
    \/ \E user_id \in Users : addfeed_cmd(user_id, "f1")
    \/ \E user_id \in Users : autoposton_cmd(user_id)

LoadSpec == LoadInit /\ [][LoadNext]_vars

--------------------------------------------------------------------------
(* Properties *)

\* The tenants of the tick's glob that the tick ended without evaluating:
\* the head of the queue is the tenant the tick was cut short at.
Unevaluated == IF pc = "sleep" /\ queue # <<>> THEN Tail(queue) ELSE <<>>

\* C1: within one tick, when processing one tenant raises, every tenant
\* enumerated after it is still evaluated: a tick never reaches its sleep
\* with an enumerated tenant left unevaluated.
C1_LaterTenantsEvaluated == Unevaluated = <<>>

\* The loop would go on to send_message for the tenant if it evaluated it now.
Ready(t) ==
    /\ store[t] # NoFile
    /\ LoopSelect(t, store[t], Today, clock, last_post_at[t]) # <<>>

Attempted(t) == pc = "publish" /\ cur[1].t = t

\* C2: starvation freedom across ticks: a tenant whose gate is satisfied and
\* who has an unseen item (or is in creator mode) is eventually published
\* for, whatever happens to the other tenants: as long as it stays ready the
\* loop eventually reaches send_message for it.
C2_NoStarvation == \A t \in Tenants : Ready(t) ~> (Attempted(t) \/ ~Ready(t))

\* The publication a step has just confirmed for t: <<>> when it has none.
JustPublished(t) ==
    IF published'[t] # published[t] THEN <<published'[t][Len(published'[t])]>> ELSE <<>>

\* C3: the same normalized link is never published twice to a tenant's
\* channel while it is inside the dedup window: no send_message is confirmed
\* for a link that the tenant's stored posted_urls holds.
C3_NoRepublishInWindow ==
    [][\A t \in Tenants :
          \A p \in Range(JustPublished(t)) :
             p.link = <<>> \/ p.link[1] \notin Range(store[t].posted_urls)]_vars

\* The keys of a config that commands set and the loop never assigns.
CommandKeys(cfg) ==
    <<cfg.autopost_enabled, cfg.channel, cfg.daily_limit, cfg.subscription_until,
      cfg.feeds, cfg.schedule_enabled, cfg.schedule_times>>

\* C4: a change a command persisted while the loop was mid-post for the same
\* tenant is not overwritten: the loop's save_client leaves every key that
\* commands set as it finds it in the store.
C4_CommandChangeKept ==
    [][ev'.op = "loop_save" =>
          CommandKeys(store'[ev'.t]) = CommandKeys(store[ev'.t])]_vars

PostKeys(cfg) ==
    <<cfg.posted_urls, cfg.daily_count, cfg.last_schedule_date, cfg.last_schedule_time>>

\* The tenant's stored config is, where selection reads it, the one c loaded.
SameSelection(c) ==
    /\ store[c.t].posted_urls = c.cfg.posted_urls
    /\ store[c.t].feeds = c.cfg.feeds
    /\ store[c.t].fetch_entries_per_feed = c.cfg.fetch_entries_per_feed

\* C5: when generation or the publish call fails for a tenant, in the loop
\* or in /fetchonce, the tenant's persisted posted_urls, daily_count,
\* last_schedule_date and last_schedule_time and the in-memory last-post time
\* are unchanged, and the item whose publish failed is the one the stored
\* config selects again.
C5_FailureLeavesState ==
    [][/\ ev'.op \in {"loop_gen_fail", "loop_pub_fail", "fetch_gen_fail", "fetch_pub_fail"} =>
            /\ PostKeys(store'[ev'.t]) = PostKeys(store[ev'.t])
            /\ last_post_at' = last_post_at
       /\ ev'.op = "loop_pub_fail" /\ cur[1].link # <<>> /\ SameSelection(cur[1]) =>
            pick_newest_unseen(store'[ev'.t])[1].link = cur[1].link[1]
       /\ ev'.op = "fetch_pub_fail" /\ hcur[1].link # <<>> /\ SameSelection(hcur[1]) =>
            pick_newest_unseen(store'[ev'.t])[1].link = hcur[1].link[1]]_vars

C5_Witness ==
    /\ ev.op = "loop_pub_fail"
    /\ pc = "sleep"
    /\ store[ev.t].posted_urls = <<>>
    /\ store[ev.t].daily_count = 0
    /\ last_post_at[ev.t] = -1
    /\ pick_newest_unseen(store[ev.t]) # <<>>

\* The confirmed publishes for t on day d.
PublishedOn(t, d) == {i \in 1..Len(published[t]) : published[t][i].day = d}

\* C6: no quota overrun: for every tenant and calendar day on which
\* daily_limit is not changed, the confirmed publishes of the loop and of
\* /fetchonce together do not exceed daily_limit.
C6_NoQuotaOverrun ==
    \A t \in Tenants : \A i \in 1..Len(published[t]) :
        LET p == published[t][i]
        IN p.day \notin limit_days[t] => Cardinality(PublishedOn(t, p.day)) <= p.limit

\* C7: in every persisted tenant config, daily_count <= daily_limit.
C7_CountWithinLimit ==
    \A t \in Tenants : store[t] # NoFile => store[t].daily_count <= store[t].daily_limit

\* The links of the loop's publishes confirmed for t so far.
LoopPublishedLinks(t) ==
    {published[t][i].link : i \in {j \in 1..Len(published[t]) : published[t][j].by = "loop"}}

\* C8: no link is published twice for a tenant across ticks when the process
\* stops, or save_client raises, between the confirmed publish and the
\* persistence of posted_urls: a publish the loop has confirmed for a link is
\* never followed by another publish of the loop for that link that finds it
\* missing from the stored posted_urls.
C8_NoRepublishAfterLostSave ==
    [][\A t \in Tenants :
          \A p \in Range(JustPublished(t)) :
             ~(/\ p.by = "loop"
               /\ p.link # <<>>
               /\ p.link \in LoopPublishedLinks(t)
               /\ p.link[1] \notin Range(store[t].posted_urls))]_vars

\* C9: tenant isolation: an operation performed for one tenant changes no
\* other tenant's stored config, and no operation of the running process
\* changes the config a tenant created afterwards receives.
C9_TenantIsolation ==
    [][/\ \A b \in Tenants : b # ev'.t => store'[b] = store[b]
       /\ ev'.op # "restart" =>
             ClientDefaults(DEFAULT_CLIENT') = ClientDefaults(DEFAULT_CLIENT)]_vars

\* C10: the loop never terminates on its own: every tick, whether it
\* completes or is cut short by an exception, is followed by the sleep and
\* then by another tick.
C10_LoopNeverTerminates ==
    /\ (pc \in {"iter", "publish", "save"}) ~> (pc = "sleep")
    /\ (pc = "sleep") ~> (pc = "iter")

\* A tick that was cut short has been followed by the sleep, and the next
\* tick is about to start.
C10_Witness == pc = "tick" /\ queue # <<>> /\ ticks >= 1

\* The most recent n elements of s in their order; none when n = 0.
MostRecent(s, n) ==
    IF n >= Len(s) THEN s ELSE SubSeq(s, Len(s) - n + 1, Len(s))

\* The locals of the post that the step to the next state has saved.
Saved == IF ev'.op = "loop_save" THEN cur[1] ELSE hcur[1]

\* C11: after a successful post of the loop or of /fetchonce, posted_urls
\* holds at most max_dedupe links and is exactly the most recent max_dedupe
\* of the links recorded, in insertion order (the oldest evicted first),
\* for every stored max_dedupe, 0 included.
C11_DedupWindow ==
    [][ev'.op \in {"loop_save", "fetch_pub_ok"} /\ Saved.link # <<>> =>
          /\ store'[ev'.t].posted_urls =
                MostRecent(Append(Saved.cfg.posted_urls, Saved.link[1]),
                           Saved.cfg.max_dedupe)
          /\ Len(store'[ev'.t].posted_urls) <= store'[ev'.t].max_dedupe]_vars

\* C12: posted_urls never contains the same normalized link twice, in any
\* state reachable by loop ticks, commands and /fetchonce.
C12_NoDuplicateEntry ==
    \A t \in Tenants : store[t] # NoFile =>
        \A i, j \in 1..Len(store[t].posted_urls) :
            store[t].posted_urls[i] = store[t].posted_urls[j] => i = j

\* The loop has just saved its post of a link that /fetchonce published and
\* recorded while the loop was at its send_message: the link was already in
\* the stored posted_urls, and is there once.
C12_Witness ==
    /\ ev.op = "loop_save"
    /\ \E i, j \in 1..Len(published[ev.t]) :
          /\ i < j
          /\ published[ev.t][i].by = "fetchonce"
          /\ published[ev.t][j].by = "loop"
          /\ published[ev.t][i].link # <<>>
          /\ published[ev.t][i].link = published[ev.t][j].link
          /\ store[ev.t].posted_urls = published[ev.t][i].link

\* The links of the publishes confirmed for t so far.
PublishedLinks(t) == {published[t][i].link : i \in 1..Len(published[t])}

\* The history of t holds every send_message confirmed for t so far.
HistoryComplete(t) == Len(published[t]) < MaxHistory

\* C13: every link in a tenant's persisted posted_urls is the link of a
\* publish confirmed earlier for that tenant, wherever the sequence select,
\* generate, publish, record, save was interrupted.
C13_RecordedWasPublished ==
    \A t \in Tenants : store[t] # NoFile /\ HistoryComplete(t) =>
        \A l \in Range(store[t].posted_urls) : <<l>> \in PublishedLinks(t)

\* A tenant has a recorded link after one of its posts was interrupted: a
\* generation or a send_message failed, or the save after a publish did.
C13_Witness ==
    /\ ev.op \in {"loop_gen_fail", "loop_pub_fail", "loop_save_fail",
                  "fetch_gen_fail", "fetch_pub_fail"}
    /\ store[ev.t].posted_urls # <<>>
    /\ HistoryComplete(ev.t)

\* The loop's fixed-slot publishes confirmed for t on day d in the minute
\* hhmm of the day.
SlotPublishes(t, d, hhmm) ==
    {i \in 1..Len(published[t]) :
        /\ published[t][i].fixed
        /\ published[t][i].day = d
        /\ HHMM(published[t][i].time) = hhmm}

\* C14: in fixed-slot mode the loop publishes for a tenant only in a tick
\* whose HH:MM is one of the configured slots, and at most once per
\* (calendar date, slot), also when several ticks or a restart of the
\* process fall inside that minute.
C14_OncePerSlot ==
    [][ev'.op = "loop_pub_ok" /\ cur[1].use_schedule =>
          /\ HHMM(now) \in Range(cur[1].cfg.schedule_times)
          /\ SlotPublishes(ev'.t, Today, HHMM(now)) = {}]_vars

\* The loop's publishes confirmed for t so far.
LoopPublishes(t) == {i \in 1..Len(published[t]) : published[t][i].by = "loop"}

\* C15: in interval mode, within one lifetime of the process (here: no
\* restart and no command so far), the loop does not publish for a tenant in
\* a tick that starts less than interval_minutes minutes after the tick of
\* an earlier loop publish for that tenant.
C15_IntervalKept ==
    [][ev'.op = "loop_pub_ok" /\ ~cur[1].use_schedule /\ events = 0 =>
          \A i \in LoopPublishes(ev'.t) :
              now - published[ev'.t][i].time >= cur[1].cfg.interval_minutes]_vars

\* C16: the loop never goes on to publish for a tenant whose loaded
\* autopost_enabled is false, whatever the subscription, the quota, the
\* channel, the feeds and the cadence are.
C16_DisabledNeverPublished ==
    [][/\ ev'.op = "loop_await" => store[ev'.t].autopost_enabled
       /\ ev'.op = "loop_pub_ok" => cur[1].cfg.autopost_enabled]_vars

\* The loop has just skipped a tenant that is switched off and that it
\* would have posted for had it been switched on.
C16_Witness ==
    /\ ev.op = "loop_skip"
    /\ ~store[ev.t].autopost_enabled
    /\ LoopSelect(ev.t, [store[ev.t] EXCEPT !.autopost_enabled = TRUE],
                  Today, now, last_post_at[ev.t]) # <<>>

\* subscription_until is set, is a date, and today is not after it.
Subscribed(cfg) ==
    /\ cfg.subscription_until \notin {-1, Unparseable}
    /\ Today <= cfg.subscription_until

\* C17: the loop and /fetchonce go on to their send_message for a tenant
\* only if its subscription_until is set, parses as a date and today <= that
\* date: an unset or unparseable value and the day after the date deny.
\* (That the last day itself is permitted is what C17_Witness reaches.)
C17_SubscriptionGate ==
    [][ev'.op \in {"loop_await", "fetch_await"} => Subscribed(store[ev'.t])]_vars

\* A publish has been confirmed on the last day of the subscription.
C17_Witness ==
    /\ ev.op \in {"loop_pub_ok", "fetch_pub_ok"}
    /\ store[ev.t].subscription_until = Today

\* C18: when the stored daily_date is not today, the quota check counts
\* daily_count as 0 (a tenant that reached its limit on an earlier day is
\* permitted today), and the post saved first on the new day persists
\* daily_count = 1 with daily_date = today.
C18_DailyReset ==
    [][\A t \in Tenants : store[t] # NoFile /\ store[t].daily_date # Today =>
          /\ can_post_more(store[t], Today) = (0 < store[t].daily_limit)
          /\ ev'.op \in {"loop_save", "fetch_pub_ok"} /\ ev'.t = t =>
                /\ store'[t].daily_count = 1
                /\ store'[t].daily_date = Today]_vars

\* A tenant whose record held daily_count = daily_limit from an earlier day
\* has posted today, and its record now holds today's first count.
C18_Witness ==
    /\ ev.op \in {"loop_save", "fetch_pub_ok"}
    /\ store[ev.t].daily_limit = 1
    /\ store[ev.t].daily_count = 1
    /\ store[ev.t].daily_date = Today
    /\ Len(published[ev.t]) = 1

\* What a send_message needs: a channel, and in RSS mode a feed.
Supplied(c) ==
    /\ c.channel # ""
    /\ c.cfg.mode # "creator" => c.cfg.feeds # <<>>

\* C19: every publish attempt of the loop or of /fetchonce is made with a
\* non-empty channel, and in RSS mode with at least one configured feed.
C19_ChannelAndFeed ==
    [][/\ ev'.op = "loop_await" => Supplied(cur'[1])
       /\ ev'.op = "fetch_await" => Supplied(hcur'[1])]_vars

\* The loop is at its send_message for a creator-mode tenant that has a
\* channel and no feed.
C19_Witness ==
    /\ pc = "publish"
    /\ cur[1].cfg.mode = "creator"
    /\ cur[1].cfg.feeds = <<>>
    /\ cur[1].channel # ""

\* Other values of the loop's last-post time for a tenant: none, this very
\* tick, the minute before.
OtherPrev == {-1, now, now - 1}

\* The record with other fixed-slot data, its cadence strategy unchanged:
\* another last fired slot, and, while the schedule is off, other slots.
OtherSlots(cfg) ==
    {[cfg EXCEPT !.last_schedule_date = fired[1], !.last_schedule_time = fired[2],
                 !.schedule_times = times] :
        fired \in {<<-1, -1>>, <<Today, HHMM(now)>>},
        times \in IF cfg.schedule_enabled THEN {cfg.schedule_times}
                  ELSE {cfg.schedule_times, <<HHMM(now)>>, <<HHMM(now) + 1>>}}

\* C20: one cadence strategy decides each gate evaluation: with
\* schedule_enabled and a slot configured only the fixed-slot check applies
\* and the interval clock is ignored; otherwise only the interval check
\* applies and the slots and the last fired slot are ignored.
C20_OneCadence ==
    \A t \in Tenants : store[t] # NoFile =>
        LET cfg == store[t]
            gate == Gate(cfg, Today, now, last_post_at[t])
        IN IF use_schedule(cfg)
             THEN \A prev \in OtherPrev : Gate(cfg, Today, now, prev) = gate
             ELSE \A other \in OtherSlots(cfg) :
                     Gate(other, Today, now, last_post_at[t]) = gate

\* The loop has published, and saved, for a fixed-slot tenant in two slots
\* that are less than interval_minutes apart.
C20_Witness ==
    \E t \in Tenants : \E i, j \in LoopPublishes(t) :
        /\ i < j
        /\ ev = Event("loop_save", t)
        /\ store[t].daily_count = 2
        /\ last_post_at[t] = published[t][j].time
        /\ published[t][i].fixed /\ published[t][j].fixed
        /\ store[t] # NoFile
        /\ published[t][j].time - published[t][i].time < store[t].interval_minutes
        /\ published[t][j].time > published[t][i].time

\* C26: load_client returns for every file.  For an absent tenant it saves
\* and returns the defaults; for a file that holds no JSON object it writes
\* the file's text to <id>.broken.json, overwrites the file with the
\* defaults and returns them; for a record it writes nothing and returns the
\* stored fields, each missing key taken from the defaults.
C26_LoadClient ==
    [][call'.fn = "load_client" /\ ev'.op = "status" /\ events' = events + 1 =>
          LET t == ev'.t
              raw == store[t]
              dflt == ClientDefaults(DEFAULT_CLIENT)
              out == call'.out
          IN /\ call'.args = <<t>>
             /\ raw = NoFile =>
                   /\ out = dflt
                   /\ store' = [store EXCEPT ![t] = dflt]
             /\ raw \in Unreadable =>
                   /\ out = dflt
                   /\ store' = [store EXCEPT ![t] = dflt, ![BrokenFile(t)] = raw]
             /\ raw # NoFile /\ raw \notin Unreadable =>
                   /\ store' = store
                   /\ DOMAIN out = DOMAIN dflt \cup DOMAIN raw
                   /\ \A k \in DOMAIN out :
                         out[k] = IF k \in DOMAIN raw THEN raw[k] ELSE dflt[k]]_vars

\* /status has loaded a tenant whose file held no record: the text lies in
\* <id>.broken.json and the defaults were returned and are on disk.
C26_Witness ==
    /\ ev.op = "status"
    /\ call.fn = "load_client"
    /\ store[BrokenFile(ev.t)] \in Unreadable
    /\ call.out = store[ev.t]
    /\ call.out = ClientDefaults(DEFAULT_CLIENT)


\* C21 as stated: when the loop passes a tenant over in a tick, because a
\* gate check fails or because no unseen candidate is found, nothing is
\* published for the tenant, and its file and its last-post time are what
\* they were.
C21_SkipChangesNothing ==
    [][ev'.op = "loop_skip" /\ pc = "iter" =>
          LET t == ev'.t
          IN /\ published'[t] = published[t]
             /\ store'[t] = store[t]
             /\ last_post_at'[t] = last_post_at[t]]_vars

\* C21, for a tenant whose file holds a record: when the loop passes the
\* tenant over in a tick, because a gate check fails or because no unseen
\* candidate is found, nothing is published for the tenant, and its file
\* and its last-post time are what they were.
C21_SkipKeepsRecord ==
    [][ev'.op = "loop_skip" /\ pc = "iter" /\ store[ev'.t] \notin Unreadable =>
          LET t == ev'.t
          IN /\ published'[t] = published[t]
             /\ store'[t] = store[t]
             /\ last_post_at'[t] = last_post_at[t]]_vars

\* The loop has passed over a tenant that every gate check lets through
\* and whose feed holds no unseen entry.
C21_Witness ==
    /\ ev.op = "loop_skip"
    /\ store[ev.t] # NoFile
    /\ store[ev.t] \notin Unreadable
    /\ LET cfg == load_client(store, DEFAULT_CLIENT, ev.t)
       IN /\ LoopPicks(cfg, Today, now, last_post_at[ev.t])
          /\ pick_newest_unseen(cfg) = <<>>


\* The entries pick_newest_unseen is to choose from: those with a link
\* among the first fetch_entries_per_feed entries of a configured feed,
\* whose normalized link is not in posted_urls.
Unseen(cfg) ==
    {e \in UNION {Range(FirstN(FeedEntries(f), cfg.fetch_entries_per_feed)) :
                    f \in Range(cfg.feeds)} :
        /\ e.link # <<>>
        /\ normalize_url(e.link[1]) \notin Range(cfg.posted_urls)}

\* C22: in one tick the loop publishes at most once for a tenant, and a
\* confirmed RSS post leaves posted_urls one link longer, the link being the
\* normalized link that was published, and the day's counter one higher,
\* however many unseen entries the feeds hold.
C22_OnePostPerTick ==
    [][/\ \A t \in Tenants : \A i, j \in 1..Len(published'[t]) :
             /\ i < j
             /\ published'[t][i].by = "loop"
             /\ published'[t][j].by = "loop"
             => published'[t][i].time # published'[t][j].time
       /\ ev'.op = "loop_save" /\ pc = "save" /\ cur[1].link # <<>> =>
             LET t == cur[1].t
                 link == cur[1].link[1]
                 before == ensure_daily_counter(store[t], Today)
             IN /\ store'[t].posted_urls = Append(store[t].posted_urls, link)
                /\ normalize_url(link) = link
                /\ published[t][Len(published[t])].link = <<link>>
                /\ store'[t].daily_count = before.daily_count + 1]_vars

\* The loop has saved a post of a tenant whose feeds held several unseen
\* entries, and one of them is still unseen.
C22_Witness ==
    /\ ev.op = "loop_save"
    /\ Len(store[ev.t].feeds) > 1
    /\ Len(store[ev.t].posted_urls) = 1
    /\ store[ev.t].daily_count = 1
    /\ Cardinality(Unseen(store[ev.t])) > 1

\* C23: pick_newest_unseen returns nothing exactly when no entry among the
\* first fetch_entries_per_feed of a configured feed has a link whose
\* normalized form is not in posted_urls; the link of a candidate it
\* returns is not in posted_urls.
C23_NothingIffNoneUnseen ==
    \A t \in Files :
       LET cfg == load_client(store, DEFAULT_CLIENT, t)
           best == pick_newest_unseen(cfg)
       IN /\ best = <<>> <=> Unseen(cfg) = {}
          /\ best # <<>> => best[1].link \notin Range(cfg.posted_urls)

\* The loop has passed over a tenant that every gate check lets through:
\* the one entry it looks at was posted before, and the entry behind it,
\* which it does not look at, was not.
C23_Witness ==
    /\ ev.op = "loop_skip"
    /\ store[ev.t] # NoFile
    /\ store[ev.t].feeds = <<"f1">>
    /\ store[ev.t].fetch_entries_per_feed = 1
    /\ store[ev.t].posted_urls = <<Url("/a", <<>>, "")>>
    /\ LoopPicks(store[ev.t], Today, now, last_post_at[ev.t])

\* C24: the candidate pick_newest_unseen returns is an unseen entry with
\* the greatest key (published, title): no unseen entry has a later
\* timestamp, none has a timestamp when the candidate has none, and none
\* with the same timestamp has a greater title.
C24_GreatestKey ==
    \A t \in Files :
       LET cfg == load_client(store, DEFAULT_CLIENT, t)
           best == pick_newest_unseen(cfg)
       IN best # <<>> =>
            /\ \E e \in Unseen(cfg) :
                  /\ normalize_url(e.link[1]) = best[1].link
                  /\ e.published = best[1].published
                  /\ e.title = best[1].title
            /\ \A e \in Unseen(cfg) :
                  \/ e.published < best[1].published
                  \/ e.published = best[1].published /\ e.title <= best[1].title

\* The loop is about to publish /c: its timestamp is that of /a, which was
\* seen first, and its title is the greater; /b is older and /d has no
\* timestamp and the greatest title of all.
C24_Witness ==
    /\ ev.op = "loop_await"
    /\ cur[1].link = <<Url("/c", <<>>, "")>>
    /\ cur[1].cfg.feeds = <<"f1", "f3">>
    /\ cur[1].cfg.posted_urls = <<>>
    /\ cur[1].cfg.fetch_entries_per_feed = 15

\* C25: when the fetch of a configured feed fails, pick_newest_unseen goes
\* on as if the feed were empty: the loop passes the tenant over when no
\* other feed holds an unseen entry, and else goes on with the best unseen
\* entry of the other feeds.
C25_FailedFeedIsEmpty ==
    [][/\ pc = "iter"
       /\ queue # <<>>
       /\ LoopPicks(load_client(store, DEFAULT_CLIENT, Head(queue)), Today, now,
                    last_post_at[Head(queue)])
       /\ FetchesFailing(load_client(store, DEFAULT_CLIENT, Head(queue)))
       => LET cfg == load_client(store, DEFAULT_CLIENT, Head(queue))
              others == SelectSeq(cfg.feeds, LAMBDA f : f \notin FetchMayRaise)
              best == pick_newest_unseen([cfg EXCEPT !.feeds = others])
          IN IF best = <<>> THEN ev'.op = "loop_skip"
             ELSE \/ ev'.op = "loop_gen_fail"
                  \/ ev'.op = "loop_await" /\ cur'[1].link = <<best[1].link>>]_vars


\* C27: a restart changes no file, so posted_urls, daily_count, daily_date,
\* last_schedule_date and last_schedule_time are what they were, and it
\* leaves the loop without a last-post time for any tenant.  The loop keeps
\* no other record of when it posted: a tenant in interval mode for which
\* it has no last-post time, and which the other checks let through, is not
\* passed over, however short a time ago the post before the restart was.
C27_RestartClearsIntervalOnly ==
    [][/\ ev'.op = "restart" =>
             /\ \A f \in FileNames : store'[f] = store[f]
             /\ \A t \in Tenants : last_post_at'[t] = -1
       /\ pc = "iter" /\ queue # <<>> /\ last_post_at[Head(queue)] = -1 =>
             LET cfg == load_client(store, DEFAULT_CLIENT, Head(queue))
             IN /\ ~use_schedule(cfg)
                /\ cfg.autopost_enabled
                /\ subscription_ok(cfg, Today)
                /\ can_post_more(cfg, Today)
                /\ cfg.channel # ""
                /\ cfg.mode = "creator" \/ Unseen(cfg) # {}
                => ev'.op \in {"loop_await", "loop_gen_fail"}]_vars

\* The loop is about to publish for a tenant in interval mode for which a
\* post of the loop with the time of this very tick is on record, in the
\* history and in the file: the process was restarted in between.
C27_Witness ==
    /\ ev.op = "loop_await"
    /\ ~cur[1].use_schedule
    /\ last_post_at[ev.t] = -1
    /\ store[ev.t].daily_count = 1
    /\ Len(store[ev.t].posted_urls) = 1
    /\ \E i \in LoopPublishes(ev.t) :
          /\ published[ev.t][i].time = now
          /\ published[ev.t][i].link = <<store[ev.t].posted_urls[1]>>


\* C28: a creator post, by the loop or by /fetchonce, leaves the tenant's
\* posted_urls as they are and saves the day's counter one above the counter
\* the post was made with; the loop's also saves the date and the slot of
\* the tick when the fixed-slot cadence is in force, and sets the tenant's
\* last-post time to the time of the tick.
C28_CreatorPost ==
    [][/\ ev'.op = "loop_save" /\ pc = "save" /\ cur[1].cfg.mode = "creator" =>
             LET t == cur[1].t
             IN /\ cur[1].link = <<>>
                /\ store'[t].posted_urls = store[t].posted_urls
                /\ store'[t].daily_date = Today
                /\ store'[t].daily_count =
                      ensure_daily_counter(cur[1].cfg, Today).daily_count + 1
                /\ cur[1].use_schedule =>
                      /\ store'[t].last_schedule_date = Today
                      /\ store'[t].last_schedule_time = HHMM(now)
                /\ last_post_at'[t] = now
       /\ ev'.op = "fetch_pub_ok" /\ hpc = "publish" /\ hcur[1].cfg.mode = "creator" =>
             LET t == hcur[1].t
             IN /\ hcur[1].link = <<>>
                /\ store'[t].posted_urls = store[t].posted_urls
                /\ store'[t].daily_date = Today
                /\ store'[t].daily_count =
                      ensure_daily_counter(hcur[1].cfg, Today).daily_count + 1
                /\ last_post_at'[t] = last_post_at[t]]_vars

\* The loop has saved a creator post made in a fixed slot: the file holds
\* the slot and a counter of one, and no link.
C28_Witness ==
    /\ ev.op = "loop_save"
    /\ store[ev.t].mode = "creator"
    /\ store[ev.t].posted_urls = <<>>
    /\ store[ev.t].daily_count = 1
    /\ store[ev.t].last_schedule_date = Today
    /\ store[ev.t].last_schedule_time = HHMM(now)
    /\ last_post_at[ev.t] = now
    /\ published[ev.t] # <<>>
    /\ published[ev.t][1].link = <<>>


\* The pairs of a query whose key is no tracking key: a key is one when,
\* lowercased, it is on the deny-list or begins with utm_.
Kept(q) ==
    SelectSeq(q, LAMBDA x : ~(\/ lower(x.k) \in banned_exact
                              \/ startswith_utm(lower(x.k))))

\* Two URLs that differ in nothing but tracking parameters.
SameButTracking(a, b) ==
    /\ a.scheme = b.scheme
    /\ a.netloc = b.netloc
    /\ a.path = b.path
    /\ a.fragment = b.fragment
    /\ Kept(a.query) = Kept(b.query)

\* C29: normalize_url returns the same for two URLs that differ only in
\* tracking query parameters, in whatever case their keys are written.
C29_TrackingIgnored ==
    call.fn = "normalize_url" /\ SameButTracking(call.args[1], call.args[2])
        => call.out[1] = call.out[2]

\* normalize_url was applied to ?id=1&UTM_Source=1 and to ?utm_id=1&id=1.
C29_Witness ==
    /\ call.fn = "normalize_url"
    /\ call.args[1].query = <<[k |-> "id", v |-> "1"], [k |-> "UTM_Source", v |-> "1"]>>
    /\ call.args[2].query = <<[k |-> "utm_id", v |-> "1"], [k |-> "id", v |-> "1"]>>
    /\ SameButTracking(call.args[1], call.args[2])
    /\ call.out[1].query = <<[k |-> "id", v |-> "1"]>>

\* C30: whatever the backend's text and however long it is, what
\* sanitize_llm_post returns has at most 900 characters, ends with the whole
\* canonical link, holds it nowhere else, and holds no URL of the text.
C30_CappedWithLink ==
    call.fn = "sanitize_llm_post" =>
        LET out == call.out
        IN /\ Chars(out) <= PostCap
           /\ out # <<>>
           /\ out[Len(out)] = CanonicalLink
           /\ \A i \in 1..Len(out) - 1 : out[i].kind \notin {"link", "url"}


\* The parameters of a URL that are no tracking parameters: the decoded
\* pairs, in order, whose key, lowercased, is neither on the deny-list nor
\* begins with utm_.
Parameters(url) ==
    SelectSeq(parse_qsl(url.query),
              LAMBDA x : ~(\/ lower(x.k) \in banned_exact
                          \/ startswith_utm(lower(x.k))))

\* C31: what normalize_url returns has the scheme, the host and the path of
\* the URL, its non-tracking parameters with their values in their order
\* and nothing else in the query, and no fragment; two URLs of which the
\* paths or the non-tracking parameters differ are returned differently.
C31_KeepsTheRest ==
    call.fn = "normalize_url" =>
        /\ \A i \in 1..2 :
              /\ call.out[i].scheme = call.args[i].scheme
              /\ call.out[i].netloc = call.args[i].netloc
              /\ call.out[i].path = call.args[i].path
              /\ parse_qsl(call.out[i].query) = Parameters(call.args[i])
              /\ call.out[i].fragment = ""
        /\ \/ call.args[1].path # call.args[2].path
           \/ Parameters(call.args[1]) # Parameters(call.args[2])
           => call.out[1] # call.out[2]

\* normalize_url was applied to /a?utm_id=1&id=a%20b#top and to
\* /a?id=1&ref=1: the first came back as /a?id=a+b.
C31_Witness ==
    /\ call.fn = "normalize_url"
    /\ call.args[1] = Url("/a", <<[k |-> "utm_id", v |-> "1"],
                                  [k |-> "id", v |-> "a%20b"]>>, "top")
    /\ call.args[2] = Url("/a", <<[k |-> "id", v |-> "1"], [k |-> "ref", v |-> "1"]>>, "")
    /\ call.out[1] = Url("/a", <<[k |-> "id", v |-> "a+b"]>>, "")
    /\ call.out[2] = call.args[2]

\* C37: normalize_url applied to what normalize_url returned returns the
\* same: a link as it is stored in posted_urls is a URL that normalize_url
\* returns unchanged.
C37_Idempotent ==
    [][call.fn = "normalize_url" /\ call'.fn = "normalize_url" =>
          call'.out = call.out]_vars

\* normalize_url was applied to /a?id=%2520 and /a?id=a+b, which is what it
\* returns for /a?id=%2520&fbclid=1#top and /a?id=a%20b, and returned both
\* as they are.
C37_Witness ==
    /\ call.fn = "normalize_url"
    /\ call.args = <<Url("/a", <<[k |-> "id", v |-> "%2520"]>>, ""),
                     Url("/a", <<[k |-> "id", v |-> "a+b"]>>, "")>>
    /\ call.out = call.args



\* C33: a stored autopost_enabled that is false stays false in every step
\* but an /autoposton: no step of the loop and no other command turns the
\* flag that /autopostoff has saved back on.
C33_OffStaysOff ==
    [][\A t \in Tenants :
          /\ store[t] # NoFile
          /\ ~store[t].autopost_enabled
          /\ ev'.op # "autoposton"
          => store'[t] # NoFile /\ ~store'[t].autopost_enabled]_vars


\* The steps of /fetchonce: the handler up to its await or its reply, and
\* its resumption after send_message.
FetchonceSteps ==
    {"fetch_reply", "fetch_await", "fetch_gen_fail", "fetch_feed_fail",
     "fetch_pub_ok", "fetch_pub_fail"}

\* C35: no step of /fetchonce changes the in-memory last-post time of any
\* tenant, nor the stored last_schedule_date and last_schedule_time of the
\* tenant it posts for.
C35_ManualPostLeavesCadence ==
    [][ev'.op \in FetchonceSteps =>
          /\ last_post_at' = last_post_at
          /\ store[ev'.t] # NoFile =>
                /\ store'[ev'.t].last_schedule_date = store[ev'.t].last_schedule_date
                /\ store'[ev'.t].last_schedule_time = store[ev'.t].last_schedule_time]_vars


\* The interval a tenant's next load_client returns.
Interval(st, t) == load_client(st, DEFAULT_CLIENT, t).interval_minutes

\* The replies with which /interval and /setinterval leave without saving.
IntervalRejected == {"interval_reject", "setinterval_reject", "admin_only"}

\* C32: every stored interval_minutes is an integer from 5 to 1440, and a
\* rejected /interval or /setinterval leaves every tenant's interval as it
\* was.
C32_IntervalInRange ==
    /\ [](\A t \in Tenants : store[t] # NoFile =>
             store[t].interval_minutes \in 5..1440)
    /\ [][ev'.op \in IntervalRejected =>
             \A t \in Tenants : Interval(store', t) = Interval(store, t)]_vars

\* Tenant 2 has set its interval to 1440, and its next /interval, or the
\* /setinterval it is not allowed, was rejected.
C32_Witness ==
    /\ ev.op \in IntervalRejected
    /\ ev.t = 2
    /\ store[2] # NoFile
    /\ store[2].interval_minutes = 1440

\* C34: a /activate, /deactivate, /setlimit or /setinterval from a caller
\* who is no admin leaves the configuration of every tenant, as load_client
\* returns it, unchanged.
C34_AdminOnly ==
    [][ev'.op = "admin_only" =>
          /\ ~is_admin(ev'.t)
          /\ \A t \in Tenants :
                load_client(store', DEFAULT_CLIENT', t) =
                    load_client(store, DEFAULT_CLIENT, t)]_vars

\* Tenant 2, a creator who is no admin and whose subscription the admin
\* has ended, was refused and is still without a subscription.
C34_Witness ==
    /\ ev.op = "admin_only"
    /\ ev.t = 2
    /\ events = 2
    /\ store[2] # NoFile
    /\ store[2].mode = "creator"
    /\ store[2].subscription_until = -1


\* C36: the schedule_times of every stored record holds only minutes of the
\* day, each once, in ascending order.
C36_SortedSlots ==
    \A t \in Tenants : store[t] # NoFile =>
        LET times == store[t].schedule_times
        IN /\ \A i \in 1..Len(times) : validate_hhmm(times[i])
           /\ \A i, j \in 1..Len(times) : i < j => times[i] < times[j]

==========================================================================
